---- MODULE Spec2Model ----
(***************************************************************************)
(* Colorcore: the Controller operations (colorcore/operations.py) driving  *)
(* the Open Assets transaction builder, the blockchain provider and the    *)
(* output cache.  One high-level operation runs at a time; it is split at  *)
(* its suspension points (the provider and cache calls it awaits).         *)
(***************************************************************************)
EXTENDS Integers, Sequences, FiniteSets, TLC

VARIABLES
    pc,            \* the call the running operation awaits ("idle", "done", or a call name)
    op,            \* the arguments of the running operation
    unspent,       \* what provider.list_unspent returned (each item with its colouring)
    outputs,       \* colored_outputs: the SpendableOutputs resolved so far
    calls,         \* provider and cache calls made by the running operation, in order
    transactions,  \* distribute: the transactions assembled so far; others: the built one
    summary,       \* distribute: the summary rows appended so far
    table,         \* getbalance, listunspent: the table returned
    k,             \* loop index of the loop the operation is suspended in
    processed,     \* what _process_transaction returned, per transaction, in order
    sent,          \* transactions handed to provider.send_transaction, in order
    result,        \* the outcome of the operation: status and error class
    db,            \* the Sqlite database file of the cache and its open connections
    tasks,         \* concurrent operations resolving outputs, one cache object each
    resolved,      \* every output engine.get_output has returned, by outpoint and origin
    committed,     \* the keys committed, each with its operation, and the operations that failed
    api,           \* direct use of SqliteCache: the last call made and its outcome
    provider,      \* the blockchain provider the configuration created
    requests,      \* what the provider asked of Bitcoin Core and of the chain.com API
    answer,        \* the last call of the provider and its outcome
    front,         \* the command line or RPC request being served
    written        \* what was written to the output stream or sent as HTTP response

\* the state of a blockchain provider used on its own
pvars == <<provider, requests, answer>>

\* the state of one Controller operation followed call by call
ovars == <<pc, op, unspent, outputs, calls, transactions, summary, table, k, processed, sent, result>>

\* the state of the command line and of the RPC server
rvars == <<front, written>>

\* what the steps of the output cache leave alone
mvars == <<ovars, pvars, rvars>>

\* the state of the output cache and of the operations sharing it
dvars == <<db, tasks, resolved, committed, api>>

\* what the steps of a Controller operation leave alone
cvars == <<dvars, pvars, rvars>>

vars == <<pc, op, unspent, outputs, calls, transactions, summary, table, k, processed, sent, result,
          db, tasks, resolved, committed, api, provider, requests, answer, front, written>>

-----------------------------------------------------------------------------
(* Configuration and bounds *)

DustLimit == 10        \* configuration.dust_limit
DefaultFees == 15      \* configuration.default_fees
MaxPool == 3           \* longest list of unspent outputs the provider returns
MaxConnections == 2    \* operations running at once, each with its own cache object

NoAsset == "none"      \* asset_address is None
AssetX == "X"
AssetY == "Y"

-----------------------------------------------------------------------------
(* Small helpers *)

RECURSIVE SumSeq(_)
SumSeq(s) == IF s = <<>> THEN 0 ELSE s[1] + SumSeq(Tail(s))

Abs(n) == IF n < 0 THEN -n ELSE n

\* int(a / b): Python's int() truncates the quotient towards zero
Trunc(a, b) ==
    LET q == Abs(a) \div Abs(b)
    IN IF (a < 0) = (b < 0) THEN q ELSE -q

\* math.ceil(a / b) for b > 0
Ceil(a, b) == IF a >= 0 THEN (a + b - 1) \div b ELSE -((-a) \div b)

SeqsUpTo(S, n) == UNION {[1..m -> S] : m \in 0..n}

Ok(v) == [ok |-> TRUE, err |-> "", val |-> v]
Fail(e, v) == [ok |-> FALSE, err |-> e, val |-> v]

-----------------------------------------------------------------------------
(* openassets.transactions.TransactionBuilder, as the Controller uses it.   *)
(* A transaction is [vin, vout]: vin the outpoints spent (an outpoint is the *)
(* number list_unspent gave the output), vout the outputs in order.         *)

EmptyTx == [vin |-> <<>>, vout |-> <<>>]

\* CTxOut(dust_amount, script): an output that carries asset units
get_colored_output(script) ==
    Ok([kind |-> "colored", value |-> DustLimit, script |-> script, quantities |-> <<>>])

\* CTxOut(0, marker script): the marker output with its asset quantity list
get_marker_output(asset_quantities) ==
    Ok([kind |-> "marker", value |-> 0, script |-> "marker", quantities |-> asset_quantities])

\* CTxOut(value, script), refused (DustOutputError) when value < dust_amount
get_uncolored_output(script, value) ==
    IF value < DustLimit
    THEN Fail("DustOutputError",
              [kind |-> "uncolored", value |-> value, script |-> script, quantities |-> <<>>])
    ELSE Ok([kind |-> "uncolored", value |-> value, script |-> script, quantities |-> <<>>])

NoInputs == [inputs |-> <<>>, total |-> 0]

\* the loop of _collect_uncolored_outputs from position i on
RECURSIVE CollectUncoloredFrom(_, _, _, _, _)
CollectUncoloredFrom(pool, amount, i, acc, total) ==
    IF i > Len(pool) THEN Fail("InsufficientFundsError", NoInputs)
    ELSE LET hit == pool[i].asset = NoAsset
             acc2 == IF hit THEN Append(acc, pool[i]) ELSE acc
             total2 == IF hit THEN total + pool[i].value ELSE total
         IN IF total2 >= amount
            THEN Ok([inputs |-> acc2, total |-> total2])
            ELSE CollectUncoloredFrom(pool, amount, i + 1, acc2, total2)

collect_uncolored_outputs(pool, amount) == CollectUncoloredFrom(pool, amount, 1, <<>>, 0)

\* the loop of _collect_colored_outputs from position i on
RECURSIVE CollectColoredFrom(_, _, _, _, _, _)
CollectColoredFrom(pool, asset, quantity, i, acc, total) ==
    IF i > Len(pool) THEN Fail("InsufficientAssetQuantityError", NoInputs)
    ELSE LET hit == pool[i].asset = asset
             acc2 == IF hit THEN Append(acc, pool[i]) ELSE acc
             total2 == IF hit THEN total + pool[i].qty ELSE total
         IN IF total2 >= quantity
            THEN Ok([inputs |-> acc2, total |-> total2])
            ELSE CollectColoredFrom(pool, asset, quantity, i + 1, acc2, total2)

collect_colored_outputs(pool, asset, quantity) ==
    CollectColoredFrom(pool, asset, quantity, 1, <<>>, 0)

InputValue(inputs) == SumSeq([j \in 1..Len(inputs) |-> inputs[j].value])
OutPoints(inputs) == [j \in 1..Len(inputs) |-> inputs[j].out_point]
OutputValue(vout) == SumSeq([j \in 1..Len(vout) |-> vout[j].value])

\* TransferParameters(unspent_outputs, to_script, change_script, amount)
TransferParameters(pool, to_script, change_script, amount) ==
    [unspent_outputs |-> pool, to_script |-> to_script,
     change_script |-> change_script, amount |-> amount]

\* TransactionBuilder.transfer for at most one asset transfer (asset_specs is
\* a sequence of [asset, spec]) and one bitcoin transfer
transfer(asset_specs, btc_spec, fees) ==
    LET has == Len(asset_specs) > 0
        aspec == IF has THEN asset_specs[1].spec ELSE btc_spec
        col == IF has
               THEN collect_colored_outputs(aspec.unspent_outputs, asset_specs[1].asset, aspec.amount)
               ELSE Ok(NoInputs)
        assetChange == has /\ col.val.total > aspec.amount
        coloredOut == IF ~has THEN <<>>
                      ELSE <<get_colored_output(aspec.to_script).val>>
                           \o (IF assetChange
                               THEN <<get_colored_output(aspec.change_script).val>> ELSE <<>>)
        quantities == IF ~has THEN <<>>
                      ELSE <<aspec.amount>>
                           \o (IF assetChange THEN <<col.val.total - aspec.amount>> ELSE <<>>)
        excess0 == InputValue(col.val.inputs) - OutputValue(coloredOut)
        need == excess0 < btc_spec.amount + fees
        unc == IF need
               THEN collect_uncolored_outputs(btc_spec.unspent_outputs,
                                              btc_spec.amount + fees - excess0)
               ELSE Ok(NoInputs)
        excess == excess0 + unc.val.total
        change == excess - btc_spec.amount - fees
        changeOut == get_uncolored_output(btc_spec.change_script, change)
        sentOut == get_uncolored_output(btc_spec.to_script, btc_spec.amount)
        marker == get_marker_output(quantities)
    IN IF ~col.ok THEN Fail(col.err, EmptyTx)
       ELSE IF ~unc.ok THEN Fail(unc.err, EmptyTx)
       ELSE IF change > 0 /\ ~changeOut.ok THEN Fail(changeOut.err, EmptyTx)
       ELSE IF btc_spec.amount > 0 /\ ~sentOut.ok THEN Fail(sentOut.err, EmptyTx)
       ELSE Ok([vin |-> OutPoints(col.val.inputs \o unc.val.inputs),
                vout |-> (IF quantities # <<>> THEN <<marker.val>> ELSE <<>>)
                         \o coloredOut
                         \o (IF change > 0 THEN <<changeOut.val>> ELSE <<>>)
                         \o (IF btc_spec.amount > 0 THEN <<sentOut.val>> ELSE <<>>)])

transfer_bitcoin(transfer_spec, fees) == transfer(<<>>, transfer_spec, fees)

transfer_assets(asset, transfer_spec, btc_change_script, fees) ==
    transfer(<<[asset |-> asset, spec |-> transfer_spec]>>,
             TransferParameters(transfer_spec.unspent_outputs, "none", btc_change_script, 0),
             fees)

\* TransactionBuilder.issue
issue(issuance_spec, fees) ==
    LET unc == collect_uncolored_outputs(issuance_spec.unspent_outputs, 2 * DustLimit + fees)
        changeOut == get_uncolored_output(issuance_spec.change_script,
                                          unc.val.total - DustLimit - fees)
    IN IF ~unc.ok THEN Fail(unc.err, EmptyTx)
       ELSE IF ~changeOut.ok THEN Fail(changeOut.err, EmptyTx)
       ELSE Ok([vin |-> OutPoints(unc.val.inputs),
                vout |-> <<get_colored_output(issuance_spec.to_script).val,
                           get_marker_output(<<issuance_spec.amount>>).val,
                           changeOut.val>>])

-----------------------------------------------------------------------------
(* Arguments.  Every argument reaches the Controller as text: a number is   *)
(* [kind |-> "int", val |-> n], text that int() rejects is kind "bad", an   *)
(* omitted optional argument is kind "none".  An address is [name, type].   *)

IntText(n) == [kind |-> "int", val |-> n]
BadText == [kind |-> "bad", val |-> 0]
NoText == [kind |-> "none", val |-> 0]

\* a decimal price num/den; "bad" is text decimal.Decimal rejects
DecText(n, d) == [kind |-> "dec", num |-> n, den |-> d]
BadDec == [kind |-> "bad", num |-> 0, den |-> 1]

Address(name, type) == [name |-> name, type |-> type]

as_p2pkh_address(address) ==
    IF address.type = "p2pkh" THEN Ok(address) ELSE Fail("ControllerError", address)

as_address(address) ==
    IF address.type \in {"p2pkh", "p2sh"} THEN Ok(address) ELSE Fail("ControllerError", address)

as_int(value) ==
    IF value.kind = "int" THEN Ok(value.val) ELSE Fail("ControllerError", 0)

as_decimal(value) ==
    IF value.kind = "dec" THEN Ok(value) ELSE Fail("ControllerError", value)

get_fees(value) ==
    IF value.kind = "none" THEN Ok(DefaultFees) ELSE as_int(value)

\* Convert.base58_to_asset_address: the asset address, or ControllerError
base58_to_asset_address(asset) ==
    IF asset \in {AssetX, AssetY} THEN Ok(asset) ELSE Fail("ControllerError", asset)

\* address.to_scriptPubKey(): scripts are named after the address they pay to
to_scriptPubKey(address) == address.name

\* Convert.get_derived_address: the P2SH address derived from a P2PKH address
get_derived_address(address) ==
    IF address.type # "p2pkh" THEN address
    ELSE Address(CASE address.name = "from" -> "from_oa"
                   [] address.name = "to" -> "to_oa"
                   [] address.name = "sender" -> "sender_oa"
                   [] OTHER -> "fwd_oa", "p2sh")

-----------------------------------------------------------------------------
(* The synchronous part of each operation between the return of            *)
(* _get_unspent_outputs and _process_transaction.                           *)

\* variant: the fees argument is ignored, the default fees are used
sendbitcoin_build_default_fees(o, colored_outputs) ==
    LET amount == as_int(o.amount)
        fees == get_fees(o.fees)
    IN IF ~amount.ok THEN Fail(amount.err, EmptyTx)
       ELSE IF ~fees.ok THEN Fail(fees.err, EmptyTx)
       ELSE transfer_bitcoin(
                TransferParameters(colored_outputs, to_scriptPubKey(o.to),
                                   to_scriptPubKey(o.address), amount.val),
                DefaultFees)

sendbitcoin_build(o, colored_outputs) ==
    LET amount == as_int(o.amount)
        fees == get_fees(o.fees)
    IN IF ~amount.ok THEN Fail(amount.err, EmptyTx)
       ELSE IF ~fees.ok THEN Fail(fees.err, EmptyTx)
       ELSE transfer_bitcoin(
                TransferParameters(colored_outputs, to_scriptPubKey(o.to),
                                   to_scriptPubKey(o.address), amount.val),
                fees.val)

\* variant: the destination and the asset change script are exchanged
sendasset_build_swapped(o, colored_outputs) ==
    LET amount == as_int(o.amount)
        asset == base58_to_asset_address(o.asset)
        fees == get_fees(o.fees)
    IN IF ~amount.ok THEN Fail(amount.err, EmptyTx)
       ELSE IF ~asset.ok THEN Fail(asset.err, EmptyTx)
       ELSE IF ~fees.ok THEN Fail(fees.err, EmptyTx)
       ELSE transfer_assets(
                asset.val,
                TransferParameters(colored_outputs,
                                   to_scriptPubKey(get_derived_address(o.address)),
                                   to_scriptPubKey(get_derived_address(o.to)), amount.val),
                to_scriptPubKey(o.address), fees.val)

sendasset_build(o, colored_outputs) ==
    LET amount == as_int(o.amount)
        asset == base58_to_asset_address(o.asset)
        fees == get_fees(o.fees)
    IN IF ~amount.ok THEN Fail(amount.err, EmptyTx)
       ELSE IF ~asset.ok THEN Fail(asset.err, EmptyTx)
       ELSE IF ~fees.ok THEN Fail(fees.err, EmptyTx)
       ELSE transfer_assets(
                asset.val,
                TransferParameters(colored_outputs,
                                   to_scriptPubKey(get_derived_address(o.to)),
                                   to_scriptPubKey(get_derived_address(o.address)), amount.val),
                to_scriptPubKey(o.address), fees.val)

issueasset_build(o, colored_outputs) ==
    LET amount == as_int(o.amount)
        fees == get_fees(o.fees)
    IN IF ~amount.ok THEN Fail(amount.err, EmptyTx)
       ELSE IF ~fees.ok THEN Fail(fees.err, EmptyTx)
       ELSE issue(TransferParameters(colored_outputs,
                                     to_scriptPubKey(get_derived_address(o.to)),
                                     to_scriptPubKey(o.address), amount.val),
                  fees.val)

\* variant: the value of the asset output is not set aside
calculate_distribution_no_dust(output_value, price, fees, dust_limit) ==
    LET effective_amount == output_value - fees
        units_issued == Trunc(effective_amount * price.den, price.num)
        collected0 == Ceil(units_issued * price.num, price.den)
        change0 == effective_amount - collected0
        collected == IF change0 < dust_limit THEN collected0 + change0 ELSE collected0
    IN [collected |-> collected, amount_issued |-> units_issued,
        change |-> effective_amount - collected]

\* variant: the fees are not set aside
calculate_distribution_no_fees(output_value, price, fees, dust_limit) ==
    LET effective_amount == output_value - dust_limit
        units_issued == Trunc(effective_amount * price.den, price.num)
        collected0 == Ceil(units_issued * price.num, price.den)
        change0 == effective_amount - collected0
        collected == IF change0 < dust_limit THEN collected0 + change0 ELSE collected0
    IN [collected |-> collected, amount_issued |-> units_issued,
        change |-> effective_amount - collected]

\* Controller._calculate_distribution for price = num/den
calculate_distribution(output_value, price, fees, dust_limit) ==
    LET effective_amount == output_value - fees - dust_limit
        units_issued == Trunc(effective_amount * price.den, price.num)
        collected0 == Ceil(units_issued * price.num, price.den)
        change0 == effective_amount - collected0
        collected == IF change0 < dust_limit THEN collected0 + change0 ELSE collected0
    IN [collected |-> collected, amount_issued |-> units_issued,
        change |-> effective_amount - collected]

\* variant: the forwarded output is created without the builder's check
distribute_step_unchecked(o, colored_outputs, j, sender) ==
    LET fees == get_fees(o.fees)
        d == calculate_distribution(colored_outputs[j].value, o.price, fees.val, DustLimit)
        script == to_scriptPubKey(sender)
        derived_script == to_scriptPubKey(get_derived_address(sender))
        forward == [kind |-> "uncolored", value |-> d.collected,
                    script |-> to_scriptPubKey(o.to), quantities |-> <<>>]
        changeOut == get_uncolored_output(script, d.change)
    IN IF ~fees.ok THEN Fail(fees.err, <<>>)
       ELSE IF o.price.num = 0 THEN Fail("DivisionByZero", <<>>)
       ELSE IF d.amount_issued <= 0 THEN Ok(<<>>)
       ELSE IF d.change > 0 /\ ~changeOut.ok THEN Fail(changeOut.err, <<>>)
       ELSE Ok(<<[tx |-> [vin |-> <<colored_outputs[j].out_point>>,
                          vout |-> <<get_colored_output(derived_script).val,
                                     get_marker_output(<<d.amount_issued>>).val,
                                     forward>>
                                   \o (IF d.change > 0 THEN <<changeOut.val>> ELSE <<>>)],
                  row |-> [from |-> script, received |-> colored_outputs[j].value,
                           collected |-> d.collected, sent |-> d.amount_issued,
                           transaction |-> colored_outputs[j].out_point]]>>)

\* variant: the input list is kept across the passes of the loop
distribute_step_batched(o, colored_outputs, j, sender) ==
    LET fees == get_fees(o.fees)
        d == calculate_distribution(colored_outputs[j].value, o.price, fees.val, DustLimit)
        script == to_scriptPubKey(sender)
        derived_script == to_scriptPubKey(get_derived_address(sender))
        forward == get_uncolored_output(to_scriptPubKey(o.to), d.collected)
        changeOut == get_uncolored_output(script, d.change)
    IN IF ~fees.ok THEN Fail(fees.err, <<>>)
       ELSE IF o.price.num = 0 THEN Fail("DivisionByZero", <<>>)
       ELSE IF d.amount_issued <= 0 THEN Ok(<<>>)
       ELSE IF ~forward.ok THEN Fail(forward.err, <<>>)
       ELSE IF d.change > 0 /\ ~changeOut.ok THEN Fail(changeOut.err, <<>>)
       ELSE Ok(<<[tx |-> [vin |-> [i \in 1..j |-> colored_outputs[i].out_point],
                          vout |-> <<get_colored_output(derived_script).val,
                                     get_marker_output(<<d.amount_issued>>).val,
                                     forward.val>>
                                   \o (IF d.change > 0 THEN <<changeOut.val>> ELSE <<>>)],
                  row |-> [from |-> script, received |-> colored_outputs[j].value,
                           collected |-> d.collected, sent |-> d.amount_issued,
                           transaction |-> colored_outputs[j].out_point]]>>)

\* one pass of the loop body of distribute for output number j, once
\* provider.get_transaction has returned the incoming transaction
distribute_step(o, colored_outputs, j, sender) ==
    LET fees == get_fees(o.fees)
        d == calculate_distribution(colored_outputs[j].value, o.price, fees.val, DustLimit)
        script == to_scriptPubKey(sender)
        derived_script == to_scriptPubKey(get_derived_address(sender))
        forward == get_uncolored_output(to_scriptPubKey(o.to), d.collected)
        changeOut == get_uncolored_output(script, d.change)
    IN IF ~fees.ok THEN Fail(fees.err, <<>>)
       ELSE IF o.price.num = 0 THEN Fail("DivisionByZero", <<>>)
       ELSE IF d.amount_issued <= 0 THEN Ok(<<>>)
       ELSE IF ~forward.ok THEN Fail(forward.err, <<>>)
       ELSE IF d.change > 0 /\ ~changeOut.ok THEN Fail(changeOut.err, <<>>)
       ELSE Ok(<<[tx |-> [vin |-> <<colored_outputs[j].out_point>>,
                          vout |-> <<get_colored_output(derived_script).val,
                                     get_marker_output(<<d.amount_issued>>).val,
                                     forward.val>>
                                   \o (IF d.change > 0 THEN <<changeOut.val>> ELSE <<>>)],
                  row |-> [from |-> script, received |-> colored_outputs[j].value,
                           collected |-> d.collected, sent |-> d.amount_issued,
                           transaction |-> colored_outputs[j].out_point]]>>)

-----------------------------------------------------------------------------
(* What the provider can return.  An unspent output is listed together     *)
(* with the colouring engine.get_output resolves for it; its outpoint is    *)
(* its position in the list.                                                *)

Utxo(value, asset, qty, script) ==
    [value |-> value, asset |-> asset, qty |-> qty, script |-> script]

\* the unspent outputs an address may hold, per operation
PoolItems(name) ==
    CASE name = "sendbitcoin" ->
            {Utxo(20, AssetX, 30, "from"), Utxo(80, NoAsset, 0, "from"),
             Utxo(50, NoAsset, 0, "from"), Utxo(5, NoAsset, 0, "from")}
      [] name = "sendasset" ->
            {Utxo(10, AssetX, 50, "from_oa"), Utxo(40, NoAsset, 0, "from"),
             Utxo(10, AssetX, 80, "from_oa"), Utxo(10, AssetY, 80, "from_oa")}
      [] name = "issueasset" ->
            {Utxo(5, NoAsset, 0, "from"), Utxo(35, NoAsset, 0, "from"),
             Utxo(20, AssetX, 30, "from")}
      [] name = "distribute" ->
            {Utxo(61, NoAsset, 0, "from"), Utxo(65, NoAsset, 0, "from"),
             Utxo(30, AssetX, 30, "from")}
      [] OTHER ->
            {Utxo(20, AssetX, 30, "s1"), Utxo(50, AssetX, 10, "s2"),
             Utxo(80, NoAsset, 0, "s1"), Utxo(30, AssetY, 5, "s1")}

\* variant: the output is taken uncoloured, as the transaction lists it
SpendableOutput_raw(out_point, output) ==
    [out_point |-> out_point, value |-> output.value, asset |-> NoAsset,
     qty |-> 0, script |-> output.script]

\* SpendableOutput(out_point, output), flattened into one record
SpendableOutput(out_point, output) ==
    [out_point |-> out_point, value |-> output.value, asset |-> output.asset,
     qty |-> output.qty, script |-> output.script]

Pools(name) == SeqsUpTo(PoolItems(name), MaxPool)

\* the argument values tried, per operation
Amounts(name) ==
    CASE name = "sendbitcoin" -> {IntText(5), IntText(70), IntText(100), BadText}
      [] name = "sendasset" -> {IntText(0), IntText(100), BadText}
      [] OTHER -> {IntText(100), BadText}
Fees == {NoText, IntText(10), BadText}
Prices == {DecText(20, 1), DecText(5, 2), DecText(0, 1), DecText(-5, 2), BadDec}
Modes == {"unsigned", "signed", "broadcast"}
FromAddresses == {Address("from", "p2pkh"), Address("from", "bad")}
ToAddresses == {Address("to", "p2pkh"), Address("to", "bad")}
AssetTexts == {AssetX, "bad"}
Senders == {Address("sender", "p2pkh"), Address("sender", "other")}
QueryAddresses == {Address("all", "none"), Address("from", "p2pkh"), Address("from", "bad")}
Confirmations == {IntText(1), BadText}

NoOp == [name |-> "none", address |-> Address("from", "p2pkh"), to |-> Address("to", "p2pkh"),
         amount |-> NoText, asset |-> NoAsset, fees |-> NoText,
         price |-> BadDec, mode |-> "unsigned", minconf |-> NoText, maxconf |-> NoText]

NoResult == [status |-> "none", error |-> ""]
OkResult == [status |-> "ok", error |-> ""]
ErrorResult(e) == [status |-> "error", error |-> e]

\* the cache objects that can be open at once: cache_factory makes one per
\* call of _get_unspent_outputs, each with its own connection to the file
Connections == 1..MaxConnections

\* a new database file: the table Outputs is empty, nothing is pending in
\* any connection and no connection holds the write lock
EmptyDatabase ==
    [rows |-> {}, pending |-> [c \in Connections |-> {}], lock |-> 0]

\* no operation uses the connection; runs counts those that have
IdleTask ==
    [pc |-> "idle", id |-> <<>>, runs |-> 0, items |-> <<>>, k |-> 0, stack |-> <<>>,
     outputs |-> <<>>, commits |-> 0, error |-> ""]

\* SqliteCache has not been called; first holds the first descriptor put under
\* each key and the connection that put it
NoCall ==
    [call |-> "", connection |-> 0, key |-> <<>>, argument |-> <<>>, error |-> "",
     returned |-> <<>>, first |-> {}]

\* no provider has been created; no call of a provider has been made
NoProvider == [class |-> "none", fallback_provider |-> FALSE]
NoArguments == [addresses |-> <<>>, bounds |-> <<>>, transaction |-> ""]
NoAnswer == [method |-> "none", arguments |-> NoArguments, outcome |-> "none",
             value |-> <<>>, requests |-> <<>>]

\* a name as the command line and the RPC server see it: its text, its
\* first character and whether it is made of word characters only
Name(text, first, word) == [text |-> text, first |-> first, word |-> word]
\* nothing is being served
NoInvocation == [via |-> "none", stage |-> "idle", slash |-> FALSE, segments |-> <<>>,
                 controllers |-> 0, handler |-> "none", outcome |-> NoResult,
                 raised |-> ""]

Init ==
    /\ pc = "idle"
    /\ op = NoOp
    /\ unspent = <<>>
    /\ outputs = <<>>
    /\ calls = <<>>
    /\ transactions = <<>>
    /\ summary = <<>>
    /\ table = <<>>
    /\ k = 0
    /\ processed = <<>>
    /\ sent = <<>>
    /\ result = NoResult
    /\ db = EmptyDatabase
    /\ tasks = [c \in Connections |-> IdleTask]
    /\ resolved = {}
    /\ committed = [puts |-> {}, failed |-> {}]
    /\ api = NoCall
    /\ provider = NoProvider
    /\ requests = <<>>
    /\ answer = NoAnswer
    /\ front = NoInvocation
    /\ written = <<>>

-----------------------------------------------------------------------------
(* Shared steps *)

\* the operation raises: nothing more is called
Raise(e) ==
    /\ pc' = "done"
    /\ result' = ErrorResult(e)

\* the operation returns
Return ==
    /\ pc' = "done"
    /\ result' = OkResult

\* await provider.<name> or cache.<name>
Call(name) ==
    /\ pc' = name
    /\ calls' = Append(calls, name)
    /\ result' = result

\* the first statements of an operation o: ok says whether its arguments
\* passed the checks made before _get_unspent_outputs, which then
\* creates the cache and the engine and awaits provider.list_unspent
Start(o, ok) ==
    /\ pc = "idle"
    /\ op' = o
    /\ IF ok THEN Call("list_unspent")
             ELSE Raise("ControllerError") /\ calls' = calls
    /\ UNCHANGED <<unspent, outputs, transactions, summary, table, k, processed, sent>>
    /\ UNCHANGED cvars

sendbitcoin(address, amount, to, fees, mode) ==
    Start([NoOp EXCEPT !.name = "sendbitcoin", !.address = address, !.amount = amount,
                       !.to = to, !.fees = fees, !.mode = mode],
          as_p2pkh_address(address).ok /\ as_address(to).ok)

sendasset(address, asset, amount, to, fees, mode) ==
    Start([NoOp EXCEPT !.name = "sendasset", !.address = address, !.asset = asset,
                       !.amount = amount, !.to = to, !.fees = fees, !.mode = mode],
          as_p2pkh_address(address).ok /\ as_address(to).ok)

issueasset(address, amount, to, fees, mode) ==
    Start([NoOp EXCEPT !.name = "issueasset", !.address = address, !.amount = amount,
                       !.to = to, !.fees = fees, !.mode = mode],
          as_p2pkh_address(address).ok /\ as_address(to).ok)

distribute(address, forward_address, price, fees, mode) ==
    Start([NoOp EXCEPT !.name = "distribute", !.address = address, !.to = forward_address,
                       !.price = price, !.fees = fees, !.mode = mode],
          as_p2pkh_address(address).ok /\ as_address(forward_address).ok
              /\ as_decimal(price).ok)

getbalance(address, minconf, maxconf) ==
    Start([NoOp EXCEPT !.name = "getbalance", !.address = address,
                       !.minconf = minconf, !.maxconf = maxconf],
          as_int(minconf).ok /\ as_int(maxconf).ok)

listunspent(address, minconf, maxconf) ==
    Start([NoOp EXCEPT !.name = "listunspent", !.address = address,
                       !.minconf = minconf, !.maxconf = maxconf],
          as_int(minconf).ok /\ as_int(maxconf).ok)

-----------------------------------------------------------------------------
(* _get_unspent_outputs *)

\* provider.list_unspent returns; the loop over its items starts
list_unspent_return ==
    /\ pc = "list_unspent"
    /\ \E pool \in Pools(op.name) :
          /\ unspent' = pool
          /\ IF pool = <<>> THEN Call("commit") /\ k' = 0
                            ELSE Call("get_output") /\ k' = 1
    /\ UNCHANGED <<op, outputs, transactions, summary, table, processed, sent>>
    /\ UNCHANGED cvars

\* variant: the colouring resolved for the first item is kept for every item
get_output_return_stale ==
    /\ pc = "get_output"
    /\ outputs' = Append(outputs, SpendableOutput(k, unspent[1]))
    /\ IF k < Len(unspent) THEN Call("get_output") /\ k' = k + 1
                           ELSE Call("commit") /\ k' = 0
    /\ UNCHANGED <<op, unspent, transactions, summary, table, processed, sent>>
    /\ UNCHANGED cvars

\* variant: each resolved output is put at the head of the list
get_output_return_reversed ==
    /\ pc = "get_output"
    /\ outputs' = <<SpendableOutput(k, unspent[k])>> \o outputs
    /\ IF k < Len(unspent) THEN Call("get_output") /\ k' = k + 1
                           ELSE Call("commit") /\ k' = 0
    /\ UNCHANGED <<op, unspent, transactions, summary, table, processed, sent>>
    /\ UNCHANGED cvars

\* variant: the loop over the items is left after the first item
get_output_return_early ==
    /\ pc = "get_output"
    /\ outputs' = Append(outputs, SpendableOutput(k, unspent[k]))
    /\ Call("commit") /\ k' = 0
    /\ UNCHANGED <<op, unspent, transactions, summary, table, processed, sent>>
    /\ UNCHANGED cvars

\* engine.get_output returns the colouring of item k
get_output_return ==
    /\ pc = "get_output"
    /\ outputs' = Append(outputs, SpendableOutput(k, unspent[k]))
    /\ IF k < Len(unspent) THEN Call("get_output") /\ k' = k + 1
                           ELSE Call("commit") /\ k' = 0
    /\ UNCHANGED <<op, unspent, transactions, summary, table, processed, sent>>
    /\ UNCHANGED cvars

-----------------------------------------------------------------------------
(* _process_transaction and _sign_transaction *)

Unsigned(tx) == [form |-> "unsigned", tx |-> tx, scriptSig |-> <<>>]

\* _sign_transaction: every input whose script is the address's script or
\* its derived script gets a signature script
sign_transaction(address, colored_outputs, tx) ==
    LET base_script == to_scriptPubKey(address)
        derived_script == to_scriptPubKey(get_derived_address(address))
        script_map(n) == (CHOOSE o \in {colored_outputs[i] : i \in 1..Len(colored_outputs)} :
                             o.out_point = n).script
    IN [form |-> "signed", tx |-> tx,
        scriptSig |-> [i \in 1..Len(tx.vin) |->
                         IF script_map(tx.vin[i]) = base_script THEN "sig"
                         ELSE IF script_map(tx.vin[i]) = derived_script
                              THEN "sig_redeem" ELSE "none"]]

\* the loop that processes transactions j, j+1, ... of txs, done being what
\* was returned for the earlier ones: runs to the next awaited call
ProcessFrom(txs, j, done) ==
    IF op.mode \in {"broadcast", "signed"}
    THEN IF j > Len(txs)
         THEN Return /\ processed' = done /\ k' = 0 /\ calls' = calls
         ELSE Call("get_private_key") /\ processed' = done /\ k' = j
    ELSE /\ Return
         /\ processed' = done \o [i \in 1..(Len(txs) - j + 1) |-> Unsigned(txs[j + i - 1])]
         /\ k' = 0
         /\ calls' = calls

\* variant: in mode broadcast every transaction is signed before the
\* first is sent
get_private_key_return_deferred ==
    /\ pc = "get_private_key"
    /\ LET signed == sign_transaction(op.address, outputs, transactions[k])
       IN IF op.mode = "broadcast"
          THEN /\ IF k < Len(transactions)
                  THEN Call("get_private_key") /\ k' = k + 1
                  ELSE Call("send_transaction") /\ k' = k
               /\ sent' = Append(sent, signed)
               /\ UNCHANGED processed
          ELSE /\ ProcessFrom(transactions, k + 1, Append(processed, signed))
               /\ sent' = sent
    /\ UNCHANGED <<op, unspent, outputs, transactions, summary, table>>
    /\ UNCHANGED cvars

\* provider.get_private_key returns: the transaction is signed, then sent
\* when the mode is broadcast
get_private_key_return ==
    /\ pc = "get_private_key"
    /\ LET signed == sign_transaction(op.address, outputs, transactions[k])
       IN IF op.mode = "broadcast"
          THEN /\ Call("send_transaction")
               /\ sent' = Append(sent, signed)
               /\ UNCHANGED <<processed, k>>
          ELSE /\ ProcessFrom(transactions, k + 1, Append(processed, signed))
               /\ sent' = sent
    /\ UNCHANGED <<op, unspent, outputs, transactions, summary, table>>
    /\ UNCHANGED cvars

\* provider.send_transaction returns the hash of the transaction
send_transaction_return ==
    /\ pc = "send_transaction"
    /\ ProcessFrom(transactions, k + 1,
                   Append(processed, [sent[Len(sent)] EXCEPT !.form = "txid"]))
    /\ UNCHANGED <<op, unspent, outputs, transactions, summary, table, sent>>
    /\ UNCHANGED cvars

-----------------------------------------------------------------------------
(* The operations after _get_unspent_outputs *)

Build(o, colored_outputs) ==
    CASE o.name = "sendbitcoin" -> sendbitcoin_build(o, colored_outputs)
      [] o.name = "sendasset" -> sendasset_build(o, colored_outputs)
      [] OTHER -> issueasset_build(o, colored_outputs)

\* variant: the error of the builder is swallowed and processing goes on
commit_return_send_unchecked ==
    /\ pc = "commit"
    /\ op.name \in {"sendbitcoin", "sendasset", "issueasset"}
    /\ LET r == Build(op, outputs)
       IN transactions' = <<r.val>> /\ ProcessFrom(<<r.val>>, 1, <<>>)
    /\ UNCHANGED <<op, unspent, outputs, summary, table, sent>>
    /\ UNCHANGED cvars

\* cache.commit returns to sendbitcoin, sendasset or issueasset
commit_return_send ==
    /\ pc = "commit"
    /\ op.name \in {"sendbitcoin", "sendasset", "issueasset"}
    /\ LET r == Build(op, outputs)
       IN IF r.ok
          THEN transactions' = <<r.val>> /\ ProcessFrom(<<r.val>>, 1, <<>>)
          ELSE Raise(r.err) /\ UNCHANGED <<transactions, processed, k, calls>>
    /\ UNCHANGED <<op, unspent, outputs, summary, table, sent>>
    /\ UNCHANGED cvars

\* the end of the loop of distribute over the unspent outputs
AfterLoop(txs) ==
    IF op.mode = "preview"
    THEN Return /\ UNCHANGED <<processed, calls>> /\ k' = 0
    ELSE ProcessFrom(txs, 1, <<>>)

\* cache.commit returns to distribute
commit_return_distribute ==
    /\ pc = "commit"
    /\ op.name = "distribute"
    /\ IF outputs = <<>> THEN AfterLoop(<<>>)
                         ELSE Call("get_transaction") /\ k' = 1 /\ processed' = processed
    /\ UNCHANGED <<op, unspent, outputs, transactions, summary, table, sent>>
    /\ UNCHANGED cvars

\* variant: a transaction is signed as soon as it is assembled
get_transaction_return_eager ==
    /\ pc = "get_transaction"
    /\ \E sender \in Senders :
          LET r == distribute_step(op, outputs, k, sender)
              txs == transactions \o [i \in 1..Len(r.val) |-> r.val[i].tx]
          IN IF ~r.ok
             THEN Raise(r.err) /\ UNCHANGED <<transactions, summary, processed, k, calls>>
             ELSE /\ transactions' = txs
                  /\ summary' = summary \o [i \in 1..Len(r.val) |-> r.val[i].row]
                  /\ IF r.val # <<>> /\ op.mode \in {"broadcast", "signed"}
                     THEN Call("get_private_key") /\ k' = Len(txs) /\ processed' = processed
                     ELSE IF k < Len(outputs)
                     THEN Call("get_transaction") /\ k' = k + 1 /\ processed' = processed
                     ELSE AfterLoop(txs)
    /\ UNCHANGED <<op, unspent, outputs, table, sent>>
    /\ UNCHANGED cvars

\* provider.get_transaction returns the transaction that paid output k
get_transaction_return ==
    /\ pc = "get_transaction"
    /\ \E sender \in Senders :
          LET r == distribute_step(op, outputs, k, sender)
              txs == transactions \o [i \in 1..Len(r.val) |-> r.val[i].tx]
          IN IF ~r.ok
             THEN Raise(r.err) /\ UNCHANGED <<transactions, summary, processed, k, calls>>
             ELSE /\ transactions' = txs
                  /\ summary' = summary \o [i \in 1..Len(r.val) |-> r.val[i].row]
                  /\ IF k < Len(outputs)
                     THEN Call("get_transaction") /\ k' = k + 1 /\ processed' = processed
                     ELSE AfterLoop(txs)
    /\ UNCHANGED <<op, unspent, outputs, table, sent>>
    /\ UNCHANGED cvars

\* the rows of listunspent, one per unspent output
listunspent_table(colored_outputs) ==
    [i \in 1..Len(colored_outputs) |->
        [vout |-> colored_outputs[i].out_point, script |-> colored_outputs[i].script,
         amount |-> colored_outputs[i].value,
         asset_address |-> colored_outputs[i].asset,
         asset_quantity |-> colored_outputs[i].qty]]

ScriptOrder == <<"from", "from_oa", "s1", "s2">>
AssetOrder == <<AssetX, AssetY>>

RECURSIVE Concat(_)
Concat(ss) == IF ss = <<>> THEN <<>> ELSE ss[1] \o Concat(Tail(ss))

\* variant: the outputs are grouped by script without being sorted first,
\* so that every run of outputs with one script makes an entry
getbalance_table_unsorted(colored_outputs) ==
    LET n == Len(colored_outputs)
        End(i) == CHOOSE e \in i..n :
                     /\ \A j \in i..e : colored_outputs[j].script = colored_outputs[i].script
                     /\ e = n \/ colored_outputs[e + 1].script # colored_outputs[i].script
        Run(i) == SubSeq(colored_outputs, i, End(i))
        Held(i, a) == SelectSeq(Run(i), LAMBDA o : o.asset = a)
        Assets(i) == Concat([j \in 1..Len(AssetOrder) |->
                        IF Held(i, AssetOrder[j]) = <<>> THEN <<>>
                        ELSE <<[asset_address |-> AssetOrder[j],
                                quantity |-> SumSeq([m \in 1..Len(Held(i, AssetOrder[j])) |->
                                                       Held(i, AssetOrder[j])[m].qty])]>>])
    IN Concat([i \in 1..n |->
                 IF i > 1 /\ colored_outputs[i - 1].script = colored_outputs[i].script
                 THEN <<>>
                 ELSE <<[address |-> colored_outputs[i].script,
                         value |-> SumSeq([m \in 1..Len(Run(i)) |-> Run(i)[m].value]),
                         assets |-> Assets(i)]>>])

\* the rows of getbalance: outputs grouped by script, then by asset
getbalance_table(colored_outputs) ==
    LET With(s) == SelectSeq(colored_outputs, LAMBDA o : o.script = s)
        Held(s, a) == SelectSeq(With(s), LAMBDA o : o.asset = a)
        Assets(s) == Concat([j \in 1..Len(AssetOrder) |->
                        IF Held(s, AssetOrder[j]) = <<>> THEN <<>>
                        ELSE <<[asset_address |-> AssetOrder[j],
                                quantity |-> SumSeq([i \in 1..Len(Held(s, AssetOrder[j])) |->
                                                       Held(s, AssetOrder[j])[i].qty])]>>])
    IN Concat([j \in 1..Len(ScriptOrder) |->
                 IF With(ScriptOrder[j]) = <<>> THEN <<>>
                 ELSE <<[address |-> ScriptOrder[j],
                         value |-> SumSeq([i \in 1..Len(With(ScriptOrder[j])) |->
                                             With(ScriptOrder[j])[i].value]),
                         assets |-> Assets(ScriptOrder[j])]>>])

\* cache.commit returns to getbalance or listunspent
commit_return_query ==
    /\ pc = "commit"
    /\ op.name \in {"getbalance", "listunspent"}
    /\ table' = IF op.name = "getbalance" THEN getbalance_table(outputs)
                                          ELSE listunspent_table(outputs)
    /\ Return
    /\ UNCHANGED <<op, unspent, outputs, calls, transactions, summary, k, processed, sent>>
    /\ UNCHANGED cvars

\* the calls of an operation that go to the provider, directly or through
\* the colouring engine
ProviderCalls ==
    {"list_unspent", "get_output", "get_transaction", "get_private_key", "send_transaction"}

\* variant: the call that raised is made again
provider_raises_retried ==
    /\ pc \in ProviderCalls
    /\ pc' = pc
    /\ calls' = calls \o <<"raised", pc>>
    /\ result' = result
    /\ UNCHANGED <<op, unspent, outputs, transactions, summary, table, k, processed, sent>>
    /\ UNCHANGED cvars

\* the awaited call raises instead of returning: no statement of the
\* operation catches the exception, which leaves the operation at once
provider_raises ==
    /\ pc \in ProviderCalls
    /\ Raise("ProviderError")
    /\ calls' = Append(calls, "raised")
    /\ UNCHANGED <<op, unspent, outputs, transactions, summary, table, k, processed, sent>>
    /\ UNCHANGED cvars

\* the caller has the outcome; the next operation may start
Finish ==
    /\ pc = "done"
    /\ pc' = "idle"
    /\ op' = NoOp
    /\ unspent' = <<>>
    /\ outputs' = <<>>
    /\ calls' = <<>>
    /\ transactions' = <<>>
    /\ summary' = <<>>
    /\ table' = <<>>
    /\ k' = 0
    /\ processed' = <<>>
    /\ sent' = <<>>
    /\ result' = NoResult
    /\ UNCHANGED cvars

Next ==
    \/ \E a \in FromAddresses, n \in Amounts("sendbitcoin"), t \in ToAddresses,
          f \in Fees, m \in Modes :
          sendbitcoin(a, n, t, f, m)
    \/ \E a \in FromAddresses, x \in AssetTexts, n \in Amounts("sendasset"), t \in ToAddresses,
          f \in Fees, m \in Modes :
          sendasset(a, x, n, t, f, m)
    \/ \E a \in FromAddresses, n \in Amounts("issueasset"), t \in ToAddresses,
          f \in Fees, m \in Modes :
          issueasset(a, n, t, f, m)
    \/ \E a \in FromAddresses, t \in ToAddresses, p \in Prices, f \in Fees,
          m \in Modes \cup {"preview"} :
          distribute(a, t, p, f, m)
    \/ \E a \in QueryAddresses, lo \in Confirmations, hi \in Confirmations :
          getbalance(a, lo, hi)
    \/ \E a \in QueryAddresses, lo \in Confirmations, hi \in Confirmations :
          listunspent(a, lo, hi)
    \/ list_unspent_return
    \/ get_output_return
    \/ commit_return_send
    \/ commit_return_distribute
    \/ commit_return_query
    \/ get_transaction_return
    \/ get_private_key_return
    \/ send_transaction_return
    \/ provider_raises
    \/ Finish

Spec == Init /\ [][Next]_vars

-----------------------------------------------------------------------------
(* Router._execute_operation: what is written to the output stream for the  *)
(* outcome of an operation.  A ControllerError is written with its message, *)
(* an error of the transaction builder with the name of its class.          *)

TransactionBuilderErrors ==
    {"InsufficientFundsError", "InsufficientAssetQuantityError", "DustOutputError"}

execute_operation(res) ==
    IF res.status = "ok" THEN <<"json">>
    ELSE IF res.error = "ControllerError" THEN <<"Error: ", "message">>
    ELSE IF res.error \in TransactionBuilderErrors THEN <<"Error: ", res.error>>
    ELSE IF res.error = "NotImplementedError" THEN <<"Error: ", "message">>
    ELSE <<>>

-----------------------------------------------------------------------------
(* SqliteCache (colorcore/caching.py).  Every cache object opens its own    *)
(* connection to the database file.  The table Outputs holds the committed  *)
(* rows; the rows a connection has inserted and not committed are pending   *)
(* in that connection, which holds the write lock of the file from its      *)
(* first INSERT to its commit.  A Python int is the sequence of its bytes,  *)
(* most significant first; a bytes object b'abcd' is <<"abcd">>.            *)

None == <<>>                  \* Python None
NULL == <<"NULL", "NULL">>    \* SQL NULL

OutputTypes == {"uncolored", "marker_output", "issuance", "transfer"}

\* output_type.value
OutputTypeValue(name) ==
    CASE name = "uncolored" -> 0
      [] name = "marker_output" -> 1
      [] name = "issuance" -> 2
      [] name = "transfer" -> 3

\* openassets.protocol.OutputType(value)
OutputType(v) == CHOOSE name \in OutputTypes : OutputTypeValue(name) = v

\* bitcoin.core.script.CScript(b) and bytes(script)
CScript(b) == <<"CScript", b>>
bytes(script) == script[2]

TransactionOutput(value, script, asset_id, asset_quantity, output_type) ==
    [value |-> value, script |-> script, asset_id |-> asset_id,
     asset_quantity |-> asset_quantity, output_type |-> output_type]

\* a Python int fits the 64-bit signed INTEGER of Sqlite
fits_int64(v) == Len(v) < 8 \/ (Len(v) = 8 /\ v[1] < 128)

\* variant: integers are bound as 32-bit values
to_sqlite_integer_32(v) ==
    [i \in 1..8 |-> IF i <= 4 \/ i <= 8 - Len(v) THEN 0 ELSE v[i - (8 - Len(v))]]

\* a Python int bound to a parameter: the 8 bytes Sqlite stores
to_sqlite_integer(v) ==
    [i \in 1..8 |-> IF i <= 8 - Len(v) THEN 0 ELSE v[i - (8 - Len(v))]]

RECURSIVE from_sqlite_integer(_)
\* the Python int of a stored INTEGER (none is negative here)
from_sqlite_integer(w) ==
    IF Len(w) > 1 /\ w[1] = 0 THEN from_sqlite_integer(Tail(w)) ELSE w

\* the rows a connection reads: the committed ones and its own pending ones
View(c, d) == d.rows \cup d.pending[c]

HasKey(rs, h, i) == \E r \in rs : r.TransactionHash = h /\ r.OutputIndex = i

\* variant: the type of the output is not read back
get_untyped(c, d, h, i) ==
    LET found == {r \in View(c, d) : r.TransactionHash = h /\ r.OutputIndex = i}
        r == CHOOSE r \in found : TRUE
    IN  IF found = {} THEN None
        ELSE TransactionOutput(
                 from_sqlite_integer(r.Value),
                 CScript(r.Script),
                 IF r.AssetID = NULL THEN None ELSE r.AssetID,
                 from_sqlite_integer(r.AssetQuantity),
                 "uncolored")

\* SqliteCache.get on connection c: SELECT ... WHERE TransactionHash = ? AND
\* OutputIndex = ?, then fetchone
get(c, d, h, i) ==
    LET found == {r \in View(c, d) : r.TransactionHash = h /\ r.OutputIndex = i}
        r == CHOOSE r \in found : TRUE
    IN  IF found = {} THEN None
        ELSE TransactionOutput(
                 from_sqlite_integer(r.Value),
                 CScript(r.Script),
                 IF r.AssetID = NULL THEN None ELSE r.AssetID,
                 from_sqlite_integer(r.AssetQuantity),
                 OutputType(r.OutputType))

\* the row an INSERT binds
Row(h, i, output) ==
    [TransactionHash |-> h, OutputIndex |-> i,
     Value |-> to_sqlite_integer(output.value),
     Script |-> bytes(output.script),
     AssetID |-> IF output.asset_id = None THEN NULL ELSE output.asset_id,
     AssetQuantity |-> to_sqlite_integer(output.asset_quantity),
     OutputType |-> OutputTypeValue(output.output_type)]

\* variant: INSERT OR REPLACE
put_replace(c, d, h, i, output) ==
    IF ~fits_int64(output.value) \/ ~fits_int64(output.asset_quantity)
    THEN [db |-> d, error |-> "OverflowError"]
    ELSE IF d.lock \notin {0, c}
    THEN [db |-> d, error |-> "OperationalError"]
    ELSE [db |-> [d EXCEPT !.lock = c,
                           !.pending[c] = {r \in @ : ~(r.TransactionHash = h /\ r.OutputIndex = i)}
                                              \cup {Row(h, i, output)},
                           !.rows = {r \in @ : ~(r.TransactionHash = h /\ r.OutputIndex = i)}],
          error |-> ""]

\* variant: the connection is in autocommit mode
put_autocommit(c, d, h, i, output) ==
    IF ~fits_int64(output.value) \/ ~fits_int64(output.asset_quantity)
    THEN [db |-> d, error |-> "OverflowError"]
    ELSE IF d.lock \notin {0, c}
    THEN [db |-> d, error |-> "OperationalError"]
    ELSE [db |-> [d EXCEPT !.rows = IF HasKey(View(c, d), h, i) THEN @
                                     ELSE @ \cup {Row(h, i, output)}],
          error |-> ""]

\* SqliteCache.put on connection c: INSERT OR IGNORE.  The values are bound
\* (an int that does not fit raises OverflowError), the statement takes the
\* write lock of the file, or fails with "database is locked" when another
\* connection holds it, and inserts the row unless its key is there.
put(c, d, h, i, output) ==
    IF ~fits_int64(output.value) \/ ~fits_int64(output.asset_quantity)
    THEN [db |-> d, error |-> "OverflowError"]
    ELSE IF d.lock \notin {0, c}
    THEN [db |-> d, error |-> "OperationalError"]
    ELSE [db |-> [d EXCEPT !.lock = c,
                           !.pending[c] = IF HasKey(View(c, d), h, i) THEN @
                                          ELSE @ \cup {Row(h, i, output)}],
          error |-> ""]

\* SqliteCache.commit on connection c: its pending rows become rows of the
\* table and the write lock is released
commit(c, d) ==
    [d EXCEPT !.rows = @ \cup d.pending[c],
              !.pending[c] = {},
              !.lock = IF @ = c THEN 0 ELSE @]

\* connection c is closed without a commit: its pending rows are rolled back
rollback(c, d) ==
    [d EXCEPT !.pending[c] = {},
              !.lock = IF @ = c THEN 0 ELSE @]

-----------------------------------------------------------------------------
(* SqliteCache used directly, as its tests do: any sequence of put, get and *)
(* commit on the cache objects open on one file.                            *)

Int63Max == <<127, 255, 255, 255, 255, 255, 255, 255>>     \* 2 ** 63 - 1
Int63Over == <<128, 0, 0, 0, 0, 0, 0, 0>>                  \* 2 ** 63

Descriptors ==
    {TransactionOutput(<<150>>, CScript(<<"abcd">>), <<"1234">>, <<75>>, "issuance"),
     TransactionOutput(<<150>>, CScript(<<"abcd">>), None, <<0>>, "uncolored"),
     TransactionOutput(Int63Max, CScript(<<"aaaa">>), <<"1234">>, Int63Max, "transfer"),
     TransactionOutput(Int63Over, CScript(<<"abcd">>), <<"1234">>, <<75>>, "issuance")}

Keys == {<<"transaction", 5>>, <<"transaction", 6>>}

\* the first descriptor put under every key that has one, and the connection
\* that put it
FirstPuts(first, key, output, c, r) ==
    IF r.error = "" /\ ~\E f \in first : f[1] = key
    THEN first \cup {<<key, output, c>>}
    ELSE first

call_put(c, key, output) ==
    LET r == put(c, db, key[1], key[2], output) IN
    /\ db' = r.db
    /\ api' = [call |-> "put", connection |-> c, key |-> key, argument |-> output,
               error |-> r.error, returned |-> None,
               first |-> FirstPuts(api.first, key, output, c, r)]
    /\ UNCHANGED <<tasks, resolved, committed>>
    /\ UNCHANGED mvars

call_get(c, key) ==
    /\ api' = [call |-> "get", connection |-> c, key |-> key, argument |-> None,
               error |-> "", returned |-> get(c, db, key[1], key[2]),
               first |-> api.first]
    /\ UNCHANGED <<db, tasks, resolved, committed>>
    /\ UNCHANGED mvars

call_commit(c) ==
    /\ db' = commit(c, db)
    /\ api' = [call |-> "commit", connection |-> c, key |-> <<>>, argument |-> None,
               error |-> "", returned |-> None, first |-> api.first]
    /\ UNCHANGED <<tasks, resolved, committed>>
    /\ UNCHANGED mvars

NextSqlite ==
    \/ \E c \in Connections, key \in Keys, output \in Descriptors : call_put(c, key, output)
    \/ \E c \in Connections, key \in Keys : call_get(c, key)
    \/ \E c \in Connections : call_commit(c)

SpecSqlite == Init /\ [][NextSqlite]_vars

-----------------------------------------------------------------------------
(* The blockchain the provider serves.  A transaction is [inputs, outputs,  *)
(* marker, quantities]: the outpoints it spends, its outputs [value,         *)
(* script], the position of its marker output (0: none) and the asset       *)
(* quantities of the marker.  An outpoint is <<hash, position>>, positions  *)
(* counted from 1.  No transaction spends an output of a descendant.        *)

RECURSIVE int(_)
\* the Python int of a small number
int(n) == IF n < 256 THEN <<n>> ELSE int(n \div 256) \o <<n % 256>>

RECURSIVE number(_)
\* the number of a Python int
number(b) == IF Len(b) = 1 THEN b[1] ELSE 256 * number(SubSeq(b, 1, Len(b) - 1)) + b[Len(b)]

Chain ==
    [t1 |-> [inputs |-> <<>>,
             outputs |-> <<[value |-> int(100), script |-> <<"issuer">>],
                           [value |-> int(300), script |-> <<"other">>]>>,
             marker |-> 0, quantities |-> <<>>],
     t2 |-> [inputs |-> <<<<"t1", 1>>>>,
             outputs |-> <<[value |-> int(10), script |-> <<"alice">>],
                           [value |-> int(0), script |-> <<"marker">>],
                           [value |-> int(80), script |-> <<"issuer">>]>>,
             marker |-> 2, quantities |-> <<3>>],
     t3 |-> [inputs |-> <<<<"t2", 1>>, <<"t1", 2>>>>,
             outputs |-> <<[value |-> int(0), script |-> <<"marker">>],
                           [value |-> int(10), script |-> <<"bob">>],
                           [value |-> int(10), script |-> <<"alice">>],
                           [value |-> int(270), script |-> <<"issuer">>]>>,
             marker |-> 1, quantities |-> <<1, 2>>],
     t4 |-> [inputs |-> <<<<"t3", 2>>, <<"t3", 3>>>>,
             outputs |-> <<[value |-> int(0), script |-> <<"marker">>],
                           [value |-> int(10), script |-> <<"carol">>]>>,
             marker |-> 1, quantities |-> <<3>>]]

\* provider.list_unspent(addresses): the outpoints no transaction spends
UnspentOf(address) ==
    CASE address = "issuer" -> <<<<"t2", 3>>, <<"t3", 4>>>>
      [] address = "carol" -> <<<<"t4", 2>>>>
      [] OTHER -> <<>>

Addresses == {"issuer", "carol", "nobody"}

-----------------------------------------------------------------------------
(* openassets.protocol.ColoringEngine: the colouring of a transaction from  *)
(* the colouring of the outputs it spends.                                  *)

\* F applied to the value of v
Apply(F(_), v) == CHOOSE r \in {F(x) : x \in {v}} : TRUE

\* the asset id issued by a transaction: the hash of the script of the
\* output its first input spends
hash_script(script) == <<"hash160", bytes(script)[1]>>

Uncolored(o) == TransactionOutput(o.value, CScript(o.script), None, int(0), "uncolored")

\* the asset units of the inputs, in order: one asset id per unit
RECURSIVE Units(_)
Units(ins) ==
    IF ins = <<>> THEN <<>>
    ELSE LET d == ins[1] IN
         (IF d.asset_id = None THEN <<>>
          ELSE [u \in 1..number(d.asset_quantity) |-> d.asset_id])
         \o Units(Tail(ins))

\* the quantity the marker gives the output at position j (the marker at m)
QuantityAt(tx, j) ==
    LET q == IF j < tx.marker THEN j ELSE j - 1
    IN  IF q <= Len(tx.quantities) THEN tx.quantities[q] ELSE 0

\* the units taken by the transfer outputs before position j
RECURSIVE TakenBefore(_, _)
TakenBefore(tx, j) ==
    IF j <= tx.marker + 1 THEN 0
    ELSE TakenBefore(tx, j - 1) + QuantityAt(tx, j - 1)

\* ColoringEngine.color_transaction, once every input is resolved
color_transaction(tx, ins) ==
    IF tx.marker = 0 THEN [j \in 1..Len(tx.outputs) |-> Uncolored(tx.outputs[j])]
    ELSE Apply(LAMBDA units :
         [j \in 1..Len(tx.outputs) |->
            LET o == tx.outputs[j]
                q == QuantityAt(tx, j)
                from == TakenBefore(tx, j)
            IN  IF j = tx.marker
                THEN TransactionOutput(o.value, CScript(o.script), None, int(0), "marker_output")
                ELSE IF q = 0 THEN Uncolored(o)
                ELSE IF j < tx.marker
                THEN TransactionOutput(o.value, CScript(o.script),
                                       hash_script(ins[1].script), int(q), "issuance")
                ELSE IF from + q <= Len(units)
                        /\ \A u \in from + 1..from + q : units[u] = units[from + 1]
                THEN TransactionOutput(o.value, CScript(o.script),
                                       units[from + 1], int(q), "transfer")
                ELSE Uncolored(o)],
         Units(ins))

\* cache.put of every output of transaction h, in order; the first put that
\* raises ends them
RECURSIVE PutAll(_, _, _, _, _)
PutAll(c, d, h, colored, j) ==
    IF j > Len(colored) THEN [db |-> d, error |-> ""]
    ELSE Apply(LAMBDA r : IF r.error # "" THEN r ELSE PutAll(c, r.db, h, colored, j + 1),
               put(c, d, h, j, colored[j]))

-----------------------------------------------------------------------------
(* Controller._get_unspent_outputs run by several operations at once, each  *)
(* with the cache object cache_factory gave it.  An operation runs from one *)
(* call of the provider to the next without interruption: the cache calls   *)
(* never suspend.  e is [task, db, resolved]; the stack of a task holds the *)
(* calls of engine.get_output waiting for a transaction or for an input.    *)

MaxOperations == 2

Fresh(c, t) ==
    [pc |-> "list_unspent", id |-> <<c, t.runs + 1>>, runs |-> t.runs + 1, items |-> <<>>,
     k |-> 1, stack |-> <<>>, outputs |-> <<>>, commits |-> 0, error |-> ""]

\* the operation raises e: it makes no further call and never commits
Failed(t, error) == [t EXCEPT !.pc = "failed", !.error = error, !.stack = <<>>]

RECURSIVE Loop(_, _), get_output(_, _, _, _), Deliver(_, _, _, _), Color(_, _)

\* variant: the commit follows the first output
Loop_commit_early(c, e) ==
    LET t == e.task IN
    IF t.k > 1 \/ t.k > Len(t.items)
    THEN [e EXCEPT !.task = [t EXCEPT !.pc = "done", !.commits = @ + 1],
                   !.db = commit(c, e.db)]
    ELSE get_output(c, e, t.items[t.k][1], t.items[t.k][2])

\* the loop of _get_unspent_outputs at item k, then cache.commit
Loop(c, e) ==
    LET t == e.task IN
    IF t.k > Len(t.items)
    THEN [e EXCEPT !.task = [t EXCEPT !.pc = "done", !.commits = @ + 1],
                   !.db = commit(c, e.db)]
    ELSE get_output(c, e, t.items[t.k][1], t.items[t.k][2])

\* engine.get_output(h, i): the cached output, or await the transaction
get_output(c, e, h, i) ==
    LET cached == get(c, e.db, h, i) IN
    IF cached # None
    THEN Apply(LAMBDA x : Deliver(c, e, x, IF HasKey(e.db.rows, h, i) THEN "committed" ELSE "pending"),
               cached)
    ELSE [e EXCEPT !.task.pc = "get_transaction",
                   !.task.stack = Append(@, [hash |-> h, index |-> i, inputs |-> <<>>])]

\* engine.get_output returns output: to color_transaction when it resolves
\* an input, to the loop of _get_unspent_outputs otherwise
Deliver(c, e, output, how) ==
    LET t == e.task
        key == IF how = "computed" THEN <<t.stack[Len(t.stack)].hash, t.stack[Len(t.stack)].index>>
               ELSE <<>>
    IN  IF how = "computed"
        THEN LET below == [t EXCEPT !.stack = SubSeq(@, 1, Len(@) - 1)]
                 seen == [e EXCEPT !.task = below,
                                   !.resolved = @ \cup {<<key, output, how>>}]
             IN  IF below.stack = <<>>
                 THEN Apply(LAMBDA x : Loop(c, x),
                            [seen EXCEPT !.task.outputs = Append(@, output), !.task.k = @ + 1])
                 ELSE Apply(LAMBDA x : Color(c, x),
                            [seen EXCEPT !.task.stack[Len(below.stack)].inputs = Append(@, output)])
        ELSE LET hit == IF t.stack = <<>> THEN t.items[t.k]
                        ELSE Chain[t.stack[Len(t.stack)].hash].inputs[Len(t.stack[Len(t.stack)].inputs) + 1]
                 seen == [e EXCEPT !.resolved = @ \cup {<<hit, output, how>>}]
             IN  IF t.stack = <<>>
                 THEN Apply(LAMBDA x : Loop(c, x),
                            [seen EXCEPT !.task.outputs = Append(@, output), !.task.k = @ + 1])
                 ELSE Apply(LAMBDA x : Color(c, x),
                            [seen EXCEPT !.task.stack[Len(t.stack)].inputs = Append(@, output)])

\* engine.get_output after the transaction arrived: color_transaction
\* resolves the inputs one after the other when there is a marker, then the
\* outputs are put in the cache and the one asked for is returned
Color(c, e) ==
    LET t == e.task
        f == t.stack[Len(t.stack)]
        tx == Chain[f.hash]
    IN  IF tx.marker # 0 /\ Len(f.inputs) < Len(tx.inputs)
        THEN LET next == tx.inputs[Len(f.inputs) + 1] IN get_output(c, e, next[1], next[2])
        ELSE Apply(LAMBDA colored :
                      Apply(LAMBDA r :
                               IF r.error # ""
                               THEN [e EXCEPT !.task = Failed(t, r.error), !.db = r.db]
                               ELSE Deliver(c, [e EXCEPT !.db = r.db], colored[f.index], "computed"),
                            PutAll(c, e.db, f.hash, colored, 1)),
                   color_transaction(tx, f.inputs))

Engine(c) == [task |-> tasks[c], db |-> db, resolved |-> resolved]

\* the outcome of a run of the operation of connection c up to its next
\* call of the provider, or to its end
Continue(c, e) ==
    /\ tasks' = [tasks EXCEPT ![c] = e.task]
    /\ db' = e.db
    /\ resolved' = e.resolved
    /\ committed' =
          IF e.task.commits > tasks[c].commits
          THEN [committed EXCEPT !.puts = @ \cup {<<<<r.TransactionHash, r.OutputIndex>>, e.task.id>> :
                                                    r \in e.db.rows \ db.rows}]
          ELSE IF e.task.pc = "failed"
          THEN [committed EXCEPT !.failed = @ \cup {e.task.id}]
          ELSE committed
    /\ UNCHANGED api
    /\ UNCHANGED mvars

\* an operation starts: _get_unspent_outputs makes its cache and its engine
\* and awaits provider.list_unspent
task_starts(c, address) ==
    /\ tasks[c].pc = "idle"
    /\ tasks[c].runs < MaxOperations
    /\ tasks' = [tasks EXCEPT ![c] = [Fresh(c, @) EXCEPT !.items = UnspentOf(address)]]
    /\ UNCHANGED <<db, resolved, committed, api>>
    /\ UNCHANGED mvars

\* provider.list_unspent returns
task_list_unspent_return(c) ==
    /\ tasks[c].pc = "list_unspent"
    /\ \E e \in {Loop(c, Engine(c))} : Continue(c, e)

\* variant: the outputs of a transaction fetched for an input are not kept,
\* and the transaction that spends it is fetched again
task_get_transaction_return_unkept(c) ==
    /\ tasks[c].pc = "get_transaction"
    /\ \E e \in {IF Len(tasks[c].stack) > 1
                      /\ Chain[tasks[c].stack[Len(tasks[c].stack)].hash].marker = 0
                  THEN [Engine(c) EXCEPT !.task.stack = SubSeq(@, 1, Len(@) - 1)]
                  ELSE Color(c, Engine(c))} : Continue(c, e)

\* provider.get_transaction returns the transaction
task_get_transaction_return(c) ==
    /\ tasks[c].pc = "get_transaction"
    /\ \E e \in {Color(c, Engine(c))} : Continue(c, e)

\* the call of the provider raises
task_provider_raises(c) ==
    /\ tasks[c].pc \in {"list_unspent", "get_transaction"}
    /\ \E e \in {[Engine(c) EXCEPT !.task = Failed(@, "ProviderError")]} : Continue(c, e)

\* the operation is over and its cache object is dropped: the connection is
\* closed and what it had not committed is rolled back
task_ends(c) ==
    /\ tasks[c].pc \in {"done", "failed"}
    /\ tasks' = [tasks EXCEPT ![c] = [IdleTask EXCEPT !.runs = tasks[c].runs]]
    /\ db' = rollback(c, db)
    /\ UNCHANGED <<resolved, committed, api>>
    /\ UNCHANGED mvars

NextCache ==
    \/ \E c \in Connections, address \in Addresses : task_starts(c, address)
    \/ \E c \in Connections : task_list_unspent_return(c)
    \/ \E c \in Connections : task_get_transaction_return(c)
    \/ \E c \in Connections : task_provider_raises(c)
    \/ \E c \in Connections : task_ends(c)

SpecCache == Init /\ [][NextCache]_vars

\* every call of the provider returns or raises, and the event loop runs
\* every operation that can go on
SpecCacheFair ==
    /\ Init
    /\ [][NextCache]_vars
    /\ \A c \in Connections :
          WF_vars(task_list_unspent_return(c) \/ task_get_transaction_return(c)
                     \/ task_provider_raises(c))

-----------------------------------------------------------------------------
(* Vocabulary of the properties.  The list the provider returned, unspent, *)
(* says what every outpoint really holds; a transaction is measured         *)
(* against it and not against what the operation resolved.                  *)

Built == transactions # <<>>
\* how often the operation has made the call
Count(name) == Cardinality({i \in 1..Len(calls) : calls[i] = name})
\* _get_unspent_outputs has returned to the operation
Returned == Count("commit") = 1 /\ pc # "commit"

Txs == {transactions[i] : i \in 1..Len(transactions)}
VoutOf(tx) == {tx.vout[j] : j \in 1..Len(tx.vout)}
Kinds(tx) == [j \in 1..Len(tx.vout) |-> tx.vout[j].kind]

Quantities(tx) ==
    LET m == SelectSeq(tx.vout, LAMBDA o : o.kind = "marker")
    IN IF m = <<>> THEN <<>> ELSE m[1].quantities
ColoredCount(tx) == Len(SelectSeq(tx.vout, LAMBDA o : o.kind = "colored"))

SpentValue(tx) == SumSeq([j \in 1..Len(tx.vin) |-> unspent[tx.vin[j]].value])
SpentQuantity(tx, asset) ==
    SumSeq([j \in 1..Len(tx.vin) |->
              IF unspent[tx.vin[j]].asset = asset THEN unspent[tx.vin[j]].qty ELSE 0])
PaidTo(tx, script) ==
    SumSeq([j \in 1..Len(tx.vout) |->
              IF tx.vout[j].kind = "uncolored" /\ tx.vout[j].script = script
              THEN tx.vout[j].value ELSE 0])

\* the positions of the provider's list that hold the given asset
Holding(asset) == SelectSeq([i \in 1..Len(unspent) |-> i],
                            LAMBDA i : unspent[i].asset = asset)
\* what the positions up to i that hold the asset amount to
QuantityUpTo(i, asset) ==
    SumSeq([j \in 1..i |-> IF unspent[j].asset = asset THEN unspent[j].qty ELSE 0])
ValueUpTo(i) ==
    SumSeq([j \in 1..i |-> IF unspent[j].asset = NoAsset THEN unspent[j].value ELSE 0])
\* the outputs a first-fit selection takes: those holding the asset, in the
\* order of the list, for as long as the outputs before them fall short of
\* the target
FirstFitQuantity(asset, target) ==
    SelectSeq(Holding(asset),
              LAMBDA i : \A j \in 1..(i - 1) : QuantityUpTo(j, asset) < target)
FirstFitValue(target) ==
    SelectSeq(Holding(NoAsset), LAMBDA i : \A j \in 1..(i - 1) : ValueUpTo(j) < target)

-----------------------------------------------------------------------------
(* C1 *)

\* C1: in a transaction built by sendasset, the asset quantities of the
\* marker output add up to the asset quantity held by the inputs spent, and
\* there is one asset-bearing output per quantity: what is not sent to the
\* destination is returned as asset change.
C1_AssetConservation ==
    (op.name = "sendasset" /\ Built) =>
        LET tx == transactions[1]
        IN /\ SumSeq(Quantities(tx)) = SpentQuantity(tx, op.asset)
           /\ Len(Quantities(tx)) = ColoredCount(tx)
           /\ Quantities(tx)[1] = op.amount.val
           /\ \A j \in 1..Len(tx.vin) :
                 unspent[tx.vin[j]].asset \in {op.asset, NoAsset}

\* a transfer whose inputs hold more than the amount sent
C1_Witness ==
    /\ op.name = "sendasset" /\ Built
    /\ Len(Quantities(transactions[1])) = 2
    /\ Len(transactions[1].vin) = 3

-----------------------------------------------------------------------------
(* C2 *)

-----------------------------------------------------------------------------
(* C3 *)

-----------------------------------------------------------------------------
(* C4 *)

\* C4 as stated: for an issuance and for a transfer alike the asset-bearing
\* outputs come first, then the marker output, then the bitcoin change.
C4_ColoredBeforeMarker ==
    (op.name \in {"issueasset", "sendasset"} /\ Built) =>
        LET tx == transactions[1]
            n == ColoredCount(tx)
        IN /\ Len(tx.vout) > n
           /\ \A j \in 1..n : Kinds(tx)[j] = "colored"
           /\ Kinds(tx)[n + 1] = "marker"
           /\ \A j \in (n + 2)..Len(tx.vout) : Kinds(tx)[j] = "uncolored"

\* C4: an issuance has the issued output, then the marker output, then the
\* bitcoin change; a transfer has the marker output first, then the
\* asset-bearing outputs in the order of the quantity list (the destination,
\* then the asset change), then the bitcoin change if there is any.
C4_OutputOrder ==
    /\ (op.name = "issueasset" /\ Built) =>
          LET tx == transactions[1]
          IN /\ Kinds(tx) = <<"colored", "marker", "uncolored">>
             /\ Quantities(tx) = <<op.amount.val>>
             /\ tx.vout[1].script = to_scriptPubKey(get_derived_address(op.to))
             /\ tx.vout[3].script = to_scriptPubKey(op.address)
    /\ (op.name = "sendasset" /\ Built) =>
          LET tx == transactions[1]
              n == Len(Quantities(tx))
          IN /\ n \in {1, 2}
             /\ Len(tx.vout) \in {n + 1, n + 2}
             /\ Kinds(tx)[1] = "marker"
             /\ \A j \in 2..(n + 1) : Kinds(tx)[j] = "colored"
             /\ \A j \in (n + 2)..Len(tx.vout) :
                   /\ Kinds(tx)[j] = "uncolored"
                   /\ tx.vout[j].script = to_scriptPubKey(op.address)
             /\ tx.vout[2].script = to_scriptPubKey(get_derived_address(op.to))
             /\ Quantities(tx)[1] = op.amount.val
             /\ n = 2 =>
                   /\ tx.vout[3].script = to_scriptPubKey(get_derived_address(op.address))
                   /\ Quantities(tx)[2] = SpentQuantity(tx, op.asset) - op.amount.val

\* a transfer with a destination output, asset change and bitcoin change
C4_Witness ==
    /\ op.name = "sendasset" /\ Built
    /\ Kinds(transactions[1]) = <<"marker", "colored", "colored", "uncolored">>

-----------------------------------------------------------------------------
(* C5 *)

SendAssetScenario ==
    /\ op.name = "sendasset"
    /\ op.asset = AssetX
    /\ op.amount = IntText(100)
    /\ op.fees.kind # "bad"
    /\ unspent = <<Utxo(10, AssetX, 50, "from_oa"), Utxo(40, NoAsset, 0, "from"),
                   Utxo(10, AssetX, 80, "from_oa")>>

\* C5: the asset inputs of a transfer are the outputs that hold the
\* requested asset, taken in the order of the list the provider returned up
\* to the first of them with which the requested quantity is reached; outputs
\* that do not hold the asset are not asset inputs.  From [X:50, uncolored,
\* X:80] and a request of 100 the first and the third output are the asset
\* inputs, 100 units are sent and 30 are asset change.
C5_FirstFit ==
    /\ (op.name = "sendasset" /\ Built) =>
          LET tx == transactions[1]
              chosen == FirstFitQuantity(op.asset, op.amount.val)
          IN /\ Len(tx.vin) >= Len(chosen)
             /\ SubSeq(tx.vin, 1, Len(chosen)) = chosen
             /\ \A j \in (Len(chosen) + 1)..Len(tx.vin) :
                   unspent[tx.vin[j]].asset = NoAsset
    /\ (SendAssetScenario /\ Returned) =>
          /\ Built
          /\ transactions[1].vin = <<1, 3, 2>>
          /\ Quantities(transactions[1]) = <<100, 30>>

C5_Witness == SendAssetScenario /\ Built

-----------------------------------------------------------------------------
(* C6 *)

SendBitcoinScenario ==
    /\ op.name = "sendbitcoin"
    /\ op.amount = IntText(100)
    /\ op.fees = IntText(10)
    /\ unspent = <<Utxo(20, AssetX, 30, "from"), Utxo(80, NoAsset, 0, "from"),
                   Utxo(50, NoAsset, 0, "from")>>

\* C6: the inputs of a transaction built by sendbitcoin are outputs that
\* hold no asset, taken in the order of the list the provider returned up to
\* the first of them with which amount + fees is covered.  From [colored 20,
\* uncolored 80, uncolored 50] with amount 100 and fees 10 the inputs are the
\* second and the third output.
C6_OnlyUncoloredSpent ==
    /\ (op.name = "sendbitcoin" /\ Built) =>
          LET tx == transactions[1]
          IN /\ \A j \in 1..Len(tx.vin) : unspent[tx.vin[j]].asset = NoAsset
             /\ tx.vin = FirstFitValue(op.amount.val + get_fees(op.fees).val)
    /\ (SendBitcoinScenario /\ Returned) =>
          Built /\ transactions[1].vin = <<2, 3>>

C6_Witness == SendBitcoinScenario /\ Built

-----------------------------------------------------------------------------
(* C7 *)

InsufficientErrors == {"InsufficientFundsError", "InsufficientAssetQuantityError"}

\* the whole list holds less than what is asked for
FundsExhausted ==
    /\ op.name = "sendbitcoin"
    /\ as_p2pkh_address(op.address).ok /\ as_address(op.to).ok
    /\ as_int(op.amount).ok /\ get_fees(op.fees).ok
    /\ ValueUpTo(Len(unspent)) < op.amount.val + get_fees(op.fees).val
AssetExhausted ==
    /\ op.name = "sendasset"
    /\ as_p2pkh_address(op.address).ok /\ as_address(op.to).ok
    /\ as_int(op.amount).ok /\ base58_to_asset_address(op.asset).ok /\ get_fees(op.fees).ok
    /\ QuantityUpTo(Len(unspent), op.asset) < op.amount.val

\* C7: when the list of unspent outputs holds less than amount + fees
\* (sendbitcoin) or less than the requested quantity (sendasset) the
\* operation ends with InsufficientFundsError or
\* InsufficientAssetQuantityError; an operation that ends with one of these
\* has built and returned no transaction, has called neither
\* provider.get_private_key nor provider.send_transaction, and the command
\* line writes "Error: " followed by the name of the error's class.
C7_InsufficientIsReported ==
    /\ (Returned /\ FundsExhausted) => result = ErrorResult("InsufficientFundsError")
    /\ (Returned /\ AssetExhausted) => result = ErrorResult("InsufficientAssetQuantityError")
    /\ result.error \in InsufficientErrors =>
          /\ pc = "done"
          /\ transactions = <<>> /\ processed = <<>> /\ sent = <<>>
          /\ \A i \in 1..Len(calls) : calls[i] \notin {"get_private_key", "send_transaction"}
          /\ execute_operation(result) = <<"Error: ", result.error>>

\* a broadcast that cannot be covered by the outputs of the address
C7_Witness ==
    /\ FundsExhausted
    /\ unspent # <<>>
    /\ op.mode = "broadcast"
    /\ result = ErrorResult("InsufficientFundsError")

-----------------------------------------------------------------------------
(* C8 *)

\* the transactions distribute assembled for outputs of the given value
DistributedFor(value, fees) ==
    {tx \in Txs : /\ op.name = "distribute"
                  /\ op.price = DecText(20, 1)
                  /\ get_fees(op.fees).val = fees
                  /\ unspent[tx.vin[1]].value = value}

\* C8 as stated: an output of 61 at price 20 with fees 10 and dust limit 10
\* gives 2 units, 40 collected and a separate change output of 11.
C8_ChangeOf11 ==
    \A tx \in DistributedFor(61, 10) :
        /\ Quantities(tx) = <<2>>
        /\ tx.vout[3].value = 40
        /\ Len(tx.vout) = 4
        /\ tx.vout[4].value = 11

\* C8: an output of 61 at price 20 with fees 10 and dust limit 10 gives 2
\* units; the remainder after the asset output, the fees and 2 * 20 is 1,
\* which is below the dust limit and merged: 41 are collected and there is
\* no change output.  With fees 15 the same output gives 1 unit, 20
\* collected and a separate change output of 16.  An output of 65 with fees
\* 10 leaves a remainder of 5, which is merged: 45 are collected.
C8_Distribution ==
    /\ \A tx \in DistributedFor(61, 10) :
          /\ Quantities(tx) = <<2>>
          /\ tx.vout[3].value = 41
          /\ Len(tx.vout) = 3
    /\ \A tx \in DistributedFor(61, 15) :
          /\ Quantities(tx) = <<1>>
          /\ tx.vout[3].value = 20
          /\ Len(tx.vout) = 4
          /\ tx.vout[4].value = 16
    /\ \A tx \in DistributedFor(65, 10) :
          /\ Quantities(tx) = <<2>>
          /\ tx.vout[3].value = 45
          /\ Len(tx.vout) = 3

C8_Witness == DistributedFor(61, 10) # {}

-----------------------------------------------------------------------------
(* C9 *)

\* the outputs of the list for which distribute issues at least one unit
Qualifying(n) ==
    SelectSeq([i \in 1..n |-> i],
              LAMBDA i : calculate_distribution(unspent[i].value, op.price,
                                                get_fees(op.fees).val,
                                                DustLimit).amount_issued > 0)

\* how many outputs of the list the loop of distribute has gone through
LoopedOver ==
    IF Count("get_transaction") = 0 THEN 0
    ELSE IF pc = "get_transaction"
            \/ (result.status = "error" /\ Count("get_private_key") = 0)
         THEN Count("get_transaction") - 1
         ELSE Count("get_transaction")

\* C9: the transactions of distribute are, in order, one per output of the
\* source address that gets at least one unit, each with that output as its
\* only input; the other outputs get no transaction, no outpoint is spent by
\* two of the transactions and no transaction spends two outputs.
C9_OneTransactionPerOutput ==
    (op.name = "distribute"
        /\ pc \in {"get_transaction", "get_private_key", "send_transaction", "done"}) =>
        /\ [i \in 1..Len(transactions) |-> transactions[i].vin]
              = [i \in 1..Len(Qualifying(LoopedOver)) |-> <<Qualifying(LoopedOver)[i]>>]
        /\ [i \in 1..Len(summary) |-> summary[i].transaction] = Qualifying(LoopedOver)

\* three outputs, of which the second gets nothing
C9_Witness ==
    /\ op.name = "distribute"
    /\ pc = "done" /\ result = OkResult
    /\ Len(unspent) = 3
    /\ Qualifying(3) = <<1, 3>>
    /\ Len(processed) = 2

-----------------------------------------------------------------------------
(* C10 *)

\* an argument of the operation is malformed: an address, the amount or the price
BadArguments ==
    \/ op.name # "none" /\ op.address.type = "bad"
    \/ op.name \in {"sendbitcoin", "sendasset", "issueasset", "distribute"}
          /\ op.to.type = "bad"
    \/ op.name \in {"sendbitcoin", "sendasset", "issueasset"} /\ op.amount.kind = "bad"
    \/ op.name = "distribute" /\ op.price.kind = "bad"

\* C10 as stated: an operation with a malformed address, amount or price
\* ends with a ControllerError and calls neither the provider nor the cache.
C10_ValidationBeforeAnyCall ==
    BadArguments =>
        /\ calls = <<>>
        /\ pc = "done" => result = ErrorResult("ControllerError")

-----------------------------------------------------------------------------
(* C11 *)

Raised == Count("raised") > 0

\* C11: when a call to the provider (list_unspent, the resolution of an
\* output, get_transaction, get_private_key, send_transaction) raises, the
\* operation ends with that error and with no result, and makes no further
\* call: the call that raised is the last one of the operation and it is
\* made once.
C11_ProviderErrorPropagates ==
    Raised =>
        /\ pc = "done"
        /\ result = ErrorResult("ProviderError")
        /\ Count("raised") = 1
        /\ calls[Len(calls)] = "raised"
        /\ calls[Len(calls) - 1] \in ProviderCalls
        /\ table = <<>>
        /\ execute_operation(result) = <<>>

\* the resolution of the second of three outputs raises
C11_Witness ==
    /\ Raised
    /\ Len(unspent) = 3
    /\ calls = <<"list_unspent", "get_output", "get_output", "raised">>

-----------------------------------------------------------------------------
(* C13 *)

\* the builder, or the assembly of distribute, has run
BuilderInvoked ==
    /\ op.name \in {"sendbitcoin", "sendasset", "issueasset", "distribute"}
    /\ Built \/ summary # <<>> \/ result.error \in TransactionBuilderErrors

\* C13: when the builder (or the assembly of distribute) runs, the
\* operation has awaited list_unspent, then engine.get_output once for every
\* output of the list, then cache.commit, and the outputs it hands to the
\* builder are the resolved outputs of the whole list, in order.
C13_BuilderAfterResolution ==
    BuilderInvoked =>
        /\ Len(calls) >= Len(unspent) + 2
        /\ SubSeq(calls, 1, Len(unspent) + 2)
              = <<"list_unspent">> \o [i \in 1..Len(unspent) |-> "get_output"] \o <<"commit">>
        /\ Count("get_output") = Len(unspent)
        /\ outputs = [i \in 1..Len(unspent) |-> SpendableOutput(i, unspent[i])]

\* an issuance built from a list of three outputs
C13_Witness ==
    /\ BuilderInvoked
    /\ op.name = "issueasset"
    /\ Built
    /\ Len(unspent) = 3

-----------------------------------------------------------------------------
(* C19 *)

SendOperation == op.name \in {"sendbitcoin", "sendasset", "issueasset"}

\* C19 as stated: in mode broadcast an operation that succeeds has called
\* sign_transaction of the provider once, then send_transaction once with
\* the signed transaction, and returns the hash send_transaction returned.
C19_SignTransactionThenSend ==
    (SendOperation /\ op.mode = "broadcast" /\ pc = "done" /\ result = OkResult) =>
        /\ Count("sign_transaction") = 1
        /\ Count("send_transaction") = 1
        /\ sent = <<sign_transaction(op.address, outputs, transactions[1])>>
        /\ processed = <<[sent[1] EXCEPT !.form = "txid"]>>

-----------------------------------------------------------------------------
(* C20 *)

\* C20 as stated: in mode signed an operation that succeeds has called
\* sign_transaction of the provider once and send_transaction never, and
\* returns a transaction with the inputs and outputs of the built one.
C20_SignTransactionOnly ==
    (SendOperation /\ op.mode = "signed" /\ pc = "done" /\ result = OkResult) =>
        /\ Count("sign_transaction") = 1
        /\ Count("send_transaction") = 0
        /\ Len(processed) = 1
        /\ processed[1].form = "signed"
        /\ processed[1].tx = transactions[1]

-----------------------------------------------------------------------------
(* C15 *)

AllRows == db.rows \cup UNION {db.pending[c] : c \in Connections}

\* C15: put is first-write-wins.  Every row of the cache, pending or
\* committed, is the row of the first descriptor put under its key, and
\* every key that was put keeps its row: a later put under the key changes
\* nothing and no entry is updated or removed.  A put raises nothing because
\* of the key: it raises only for an integer Sqlite cannot hold or when
\* another connection holds the write lock.  A get that finds the key returns
\* the descriptor of the first put.
C15_FirstWriteWins ==
    /\ \A r \in AllRows : \E f \in api.first :
           r = Row(f[1][1], f[1][2], f[2])
    /\ \A f \in api.first : HasKey(View(f[3], db), f[1][1], f[1][2])
    /\ \A f \in api.first, g \in api.first : f[1] = g[1] => f = g
    /\ (api.call = "put" /\ api.error # "") =>
           \/ api.error = "OverflowError"
                 /\ (~fits_int64(api.argument.value) \/ ~fits_int64(api.argument.asset_quantity))
           \/ api.error = "OperationalError" /\ db.lock \notin {0, api.connection}
    /\ (api.call = "get" /\ api.returned # None) =>
           \E f \in api.first : f[1] = api.key /\ f[2] = api.returned

\* a second put under a key, with another descriptor, has returned and the
\* key still reads as the first descriptor
C15_Witness ==
    /\ api.call = "put"
    /\ api.error = ""
    /\ \E f \in api.first :
           /\ f[1] = api.key
           /\ f[2] # api.argument
           /\ get(api.connection, db, api.key[1], api.key[2]) = f[2]

-----------------------------------------------------------------------------
(* C16 *)

\* C16: the cache round-trips a descriptor.  The connection that first put
\* a descriptor under a key reads back a descriptor equal to it in value,
\* script, asset_id, asset_quantity and output_type, before and after its
\* commit; another connection reads it or, before the commit, None.  A key
\* that was never put reads as None.
C16_RoundTrip ==
    /\ \A f \in api.first :
           LET d == get(f[3], db, f[1][1], f[1][2]) IN
           /\ d # None
           /\ d.value = f[2].value
           /\ d.script = f[2].script
           /\ d.asset_id = f[2].asset_id
           /\ d.asset_quantity = f[2].asset_quantity
           /\ d.output_type = f[2].output_type
    /\ \A f \in api.first, c \in Connections :
           LET d == get(c, db, f[1][1], f[1][2]) IN d = None \/ d = f[2]
    /\ \A key \in Keys, c \in Connections :
           (~\E f \in api.first : f[1] = key) => get(c, db, key[1], key[2]) = None

\* get has returned the descriptor with value and quantity 2 ** 63 - 1 after
\* a commit, and the other key holds an uncolored descriptor without asset
C16_Witness ==
    /\ api.call = "get"
    /\ api.returned # None
    /\ api.returned.value = Int63Max
    /\ api.returned.asset_quantity = Int63Max
    /\ db.pending[api.connection] = {}
    /\ \E f \in api.first : f[2].asset_id = None /\ f[2].output_type = "uncolored"

-----------------------------------------------------------------------------
(* C12 *)

\* C12: an operation commits its cache at most once, and only when it has
\* resolved every output of the list; an operation that failed has not
\* committed.  Every row of the table was put by an operation that
\* committed, none by one that failed, and the rows a connection has not
\* committed are read by no other connection.
C12_CommitOnceAfterResolution ==
    /\ \A c \in Connections :
          /\ tasks[c].commits <= 1
          /\ tasks[c].commits = 1 =>
                tasks[c].pc = "done" /\ Len(tasks[c].outputs) = Len(tasks[c].items)
          /\ tasks[c].pc = "failed" => tasks[c].commits = 0 /\ tasks[c].id \in committed.failed
          /\ tasks[c].pc = "done" => tasks[c].commits = 1
    /\ \A r \in db.rows : \E p \in committed.puts :
          p[1] = <<r.TransactionHash, r.OutputIndex>> /\ p[2] \notin committed.failed
    /\ \A p \in committed.puts : HasKey(db.rows, p[1][1], p[1][2])
    /\ \A c \in Connections, b \in Connections :
          c # b => \A r \in db.pending[c] : get(b, db, r.TransactionHash, r.OutputIndex) = None

\* an operation failed after it had put outputs in its cache, and an
\* operation started after the failure awaits a transaction whose outputs
\* the failed one had put
C12_Witness ==
    \E c \in Connections, b \in Connections :
       /\ tasks[c].pc = "failed"
       /\ tasks[c].error = "ProviderError"
       /\ db.pending[c] # {}
       /\ tasks[b].pc = "get_transaction"
       /\ \E r \in db.pending[c] : r.TransactionHash = tasks[b].stack[1].hash

-----------------------------------------------------------------------------
(* C14 *)

\* C14 as stated: when operations run at once on the same database, no call
\* of get, put or commit fails because of what the other operation has not
\* committed, and the table holds one row per key.
C14_ConcurrentOperationsSucceed ==
    /\ \A c \in Connections : tasks[c].error # "OperationalError"
    /\ \A r \in db.rows, q \in db.rows :
          (r.TransactionHash = q.TransactionHash /\ r.OutputIndex = q.OutputIndex) => r = q

-----------------------------------------------------------------------------
(* C17 *)

\* C17: every resolution of an outpoint yields the same descriptor, whether
\* it was computed from the chain, read from the rows the operation has not
\* committed or read from the committed rows.
C17_ResolutionIdempotent ==
    \A p \in resolved, q \in resolved : p[1] = q[1] => p[2] = q[2]

\* the colored output of t4 has been computed and, by a later operation,
\* read from the committed rows; the colored output 3 of t3 has been read
\* from the rows put, and not yet committed, when output 2 of t3 was computed
C17_Witness ==
    /\ \E p \in resolved : p[1] = <<"t4", 2>> /\ p[3] = "computed" /\ p[2].asset_id # None
    /\ \E p \in resolved : p[1] = <<"t4", 2>> /\ p[3] = "committed"
    /\ \E p \in resolved : p[1] = <<"t3", 2>> /\ p[3] = "computed"
    /\ \E p \in resolved : p[1] = <<"t3", 3>> /\ p[3] = "pending" /\ p[2].asset_id # None

-----------------------------------------------------------------------------
(* C18 *)

\* C18: an operation that awaits the provider to resolve an output ends,
\* with the outputs resolved or with an error.
C18_ResolutionTerminates ==
    \A c \in Connections :
       (tasks[c].pc \in {"list_unspent", "get_transaction"}) ~> (tasks[c].pc \in {"done", "failed"})

\* the output of t4 has been resolved through its three ancestors
C18_Witness ==
    \E c \in Connections :
       /\ tasks[c].pc = "done"
       /\ tasks[c].items = <<<<"t4", 2>>>>
       /\ Len(tasks[c].outputs) = 1
       /\ tasks[c].outputs[1].output_type = "transfer"
       /\ \A h \in {"t1", "t2", "t3", "t4"} : \E p \in resolved : p[1][1] = h /\ p[3] = "computed"

-----------------------------------------------------------------------------
(* C21 *)

\* C21 as stated: whatever the operation, when sign_transaction of the
\* provider reports complete = false for the transaction, an operation in
\* mode signed or broadcast that has built a transaction and has come to an
\* end has failed with ControllerError after exactly one sign_transaction
\* call, has returned no transaction and has not called send_transaction.
C21_IncompleteSignatureFails ==
    \A complete \in BOOLEAN :
        (~complete /\ SendOperation /\ op.mode \in {"signed", "broadcast"}
            /\ Built /\ pc = "done") =>
            /\ result = ErrorResult("ControllerError")
            /\ Count("sign_transaction") = 1
            /\ Count("send_transaction") = 0
            /\ processed = <<>>

-----------------------------------------------------------------------------
(* C22 *)

\* the scripts, and the assets at a script, among what the provider listed
ScriptsListed == {unspent[i].script : i \in 1..Len(unspent)}
AssetsListedAt(s) ==
    {unspent[i].asset : i \in {j \in 1..Len(unspent) : unspent[j].script = s}} \ {NoAsset}
ValueListedAt(s) ==
    SumSeq([i \in 1..Len(unspent) |-> IF unspent[i].script = s THEN unspent[i].value ELSE 0])
QuantityListedAt(s, a) ==
    SumSeq([i \in 1..Len(unspent) |->
              IF unspent[i].script = s /\ unspent[i].asset = a THEN unspent[i].qty ELSE 0])
Position(order, x) == CHOOSE i \in 1..Len(order) : order[i] = x

-----------------------------------------------------------------------------
(* C26 *)

\* the value of the change output of a transaction of distribute
ChangeOf(tx) == IF Len(tx.vout) > 3 THEN tx.vout[4].value ELSE 0

\* C26: every transaction distribute creates spends a single input and
\* conserves its value: the dust limit carried by the issued output, the
\* value collected, the change (0 when there is no change output) and the
\* fees add up to the value of the input.  The change is never negative,
\* and there is a change output only when the change is positive, which
\* then is at least the dust limit.
C26_DistributeConservesValue ==
    (op.name = "distribute") =>
        \A tx \in Txs :
            LET fees == get_fees(op.fees).val
                collected == tx.vout[3].value
            IN /\ Len(tx.vin) = 1
               /\ Len(tx.vout) \in {3, 4}
               /\ tx.vout[1].value = DustLimit
               /\ tx.vout[2].kind = "marker" /\ tx.vout[2].value = 0
               /\ DustLimit + collected + ChangeOf(tx) + fees = unspent[tx.vin[1]].value
               /\ ChangeOf(tx) >= 0
               /\ Len(tx.vout) = 4 => ChangeOf(tx) >= DustLimit

\* one transaction with a change output, then one without
C26_Witness ==
    /\ op.name = "distribute"
    /\ Len(transactions) = 2
    /\ Len(transactions[1].vout) = 4
    /\ ChangeOf(transactions[1]) = 16
    /\ Len(transactions[2].vout) = 3

-----------------------------------------------------------------------------
(* C27 *)

\* the outpoints the transactions of the operation spend
Spent == UNION {{tx.vin[j] : j \in 1..Len(tx.vin)} : tx \in Txs}

C27_AssetBearingOutputsSpent ==
    (op.name = "distribute"
        /\ pc \in {"get_transaction", "get_private_key", "send_transaction", "done"}) =>
        /\ Spent = {Qualifying(LoopedOver)[i] : i \in 1..Len(Qualifying(LoopedOver))}
        /\ \A tx \in Txs :
              /\ Len(Quantities(tx)) = 1
              /\ ColoredCount(tx) = 1
              /\ Kinds(tx)[1] = "colored"
              /\ Quantities(tx)[1]
                    = calculate_distribution(unspent[tx.vin[1]].value, op.price,
                                             get_fees(op.fees).val, DustLimit).amount_issued

\* a transaction of distribute spends an output that holds 30 units
C27_Witness ==
    /\ op.name = "distribute"
    /\ pc = "done" /\ result = OkResult
    /\ \E n \in Spent : unspent[n].asset = AssetX /\ unspent[n].qty = 30

-----------------------------------------------------------------------------
(* C28 *)

\* the calls the operation has made, without the marks of a failure
CallsMade == SelectSeq(calls, LAMBDA c : c # "raised")
\* the operation failed while distribute was assembling its transactions
FailedAssembling ==
    /\ pc = "done" /\ result.status = "error"
    /\ CallsMade # <<>>
    /\ CallsMade[Len(CallsMade)] = "get_transaction"

\* C28: distribute assembles the transactions for all the outputs before it
\* signs or sends any: no output is looked at after a signature or a
\* broadcast, and at the first signature every output has been gone through.
\* When the operation fails while assembling (get_transaction fails, the
\* fees are invalid, an output cannot be created) nothing of that call has
\* been signed or sent, and in mode preview nothing is ever signed or sent.
C28_AssembleBeforeSigning ==
    (op.name = "distribute") =>
        /\ \A i \in 1..Len(calls) : \A j \in (i + 1)..Len(calls) :
              calls[i] \in {"get_private_key", "send_transaction"}
                 => calls[j] # "get_transaction"
        /\ Count("get_private_key") > 0 =>
              /\ Count("get_transaction") = Len(unspent)
              /\ Len(transactions) = Len(Qualifying(Len(unspent)))
        /\ FailedAssembling =>
              /\ Count("get_private_key") = 0 /\ Count("send_transaction") = 0
              /\ processed = <<>> /\ sent = <<>>
        /\ op.mode = "preview" =>
              /\ Count("get_private_key") = 0 /\ Count("send_transaction") = 0
              /\ processed = <<>> /\ sent = <<>>

\* in mode broadcast the third output cannot be forwarded after two
\* transactions have been assembled
C28_Witness ==
    /\ op.name = "distribute" /\ op.mode = "broadcast"
    /\ FailedAssembling
    /\ result.error = "DustOutputError"
    /\ Len(transactions) = 2

-----------------------------------------------------------------------------
(* C29 *)

\* the calls that sign and send, in the order the operation made them
Processing == SelectSeq(calls, LAMBDA c : c \in {"get_private_key", "send_transaction"})
\* the operation failed while it signed or sent transaction k
FailedProcessing ==
    /\ pc = "done" /\ result.status = "error"
    /\ CallsMade # <<>>
    /\ CallsMade[Len(CallsMade)] \in {"get_private_key", "send_transaction"}

\* C29: in mode broadcast distribute processes its transactions one at a
\* time in the order of the outputs: a transaction is signed, then sent, and
\* the next is signed only when the one before has been sent.  When signing
\* or sending transaction k fails, the transactions before k stay broadcast,
\* transaction k is not broadcast, the later ones are neither signed nor
\* sent, and the operation ends with the error: a partial distribution is
\* not undone.
C29_OneAtATime ==
    (op.name = "distribute" /\ op.mode = "broadcast") =>
        /\ \A i \in 1..Len(Processing) :
              Processing[i] = IF i % 2 = 1 THEN "get_private_key" ELSE "send_transaction"
        /\ sent = [i \in 1..Count("send_transaction") |->
                      sign_transaction(op.address, outputs, transactions[i])]
        /\ processed = [i \in 1..Len(processed) |-> [sent[i] EXCEPT !.form = "txid"]]
        /\ Len(processed) <= Count("send_transaction")
        /\ Count("send_transaction") <= Len(processed) + 1
        /\ (pc = "done" /\ result = OkResult) => Len(processed) = Len(transactions)
        /\ FailedProcessing =>
              /\ k = Count("get_private_key")
              /\ Len(processed) = k - 1
              /\ Count("send_transaction") <= k
              /\ result = ErrorResult("ProviderError")

\* the second of three transactions cannot be sent
C29_Witness ==
    /\ op.name = "distribute" /\ op.mode = "broadcast"
    /\ FailedProcessing
    /\ Len(transactions) = 3
    /\ Count("send_transaction") = 2
    /\ Len(processed) = 1

-----------------------------------------------------------------------------
(* The blockchain providers (providers.py) and the configuration that       *)
(* creates them.  Bitcoin Core and the chain.com API are outside the        *)
(* repository: what is followed is which of the two a provider asks, with   *)
(* which arguments, and what it hands back.                                 *)

MaxRequests == 2       \* requests to Bitcoin Core and chain.com that are followed

\* the unspent outputs of the chain: outpoint, address paid, confirmations
Ledger == <<[outpoint |-> 1, address |-> "a", confirmations |-> 0],
            [outpoint |-> 2, address |-> "a", confirmations |-> 3],
            [outpoint |-> 3, address |-> "b", confirmations |-> 7],
            [outpoint |-> 4, address |-> "c", confirmations |-> 3]>>
\* the addresses of the wallet of Bitcoin Core
Wallet == {"a", "b"}

\* the arguments of a provider call: addresses is None or a list of
\* addresses, bounds is <<min_confirmations, max_confirmations>>
Arguments(addresses, bounds, transaction) ==
    [addresses |-> addresses, bounds |-> bounds, transaction |-> transaction]
Request(to, what, addresses, bounds, transaction) ==
    [to |-> to, what |-> what, addresses |-> addresses, bounds |-> bounds,
     transaction |-> transaction]
Returns(value, made) == [outcome |-> "returned", value |-> value, requests |-> made]
NotImplementedError == [outcome |-> "NotImplementedError", value |-> <<>>, requests |-> <<>>]

Item(o) == [outpoint |-> o.outpoint, confirmations |-> o.confirmations]
Listed(among) == [i \in 1..Len(among) |-> Item(among[i])]
Among(addresses, o) == \E i \in 1..Len(addresses) : addresses[i] = o.address

\* bitcoin.rpc.Proxy.listunspent: the outputs of the wallet, of the given
\* addresses if there are any, within the confirmation bounds
Proxy_listunspent(addrs, minconf, maxconf) ==
    Listed(SelectSeq(Ledger, LAMBDA o :
              /\ o.address \in Wallet
              /\ addrs = None \/ Among(addrs, o)
              /\ minconf <= o.confirmations /\ o.confirmations <= maxconf))

\* GET addresses/{address}/unspents of the chain.com API: every unspent
\* output of the addresses
Chain_unspents(addresses) == Listed(SelectSeq(Ledger, LAMBDA o : Among(addresses, o)))

BitcoinCoreProvider_list_unspent(a) ==
    Returns(Proxy_listunspent(a.addresses, a.bounds[1], a.bounds[2]),
            <<Request("bitcoind", "listunspent", a.addresses, a.bounds, "")>>)
BitcoinCoreProvider_get_transaction(a) ==
    Returns(<<"transaction", a.transaction>>,
            <<Request("bitcoind", "getrawtransaction", <<>>, <<>>, a.transaction)>>)
BitcoinCoreProvider_sign_transaction(a) ==
    Returns(<<"signed", a.transaction>>,
            <<Request("bitcoind", "signrawtransaction", <<>>, <<>>, a.transaction)>>)
BitcoinCoreProvider_send_transaction(a) ==
    Returns(<<"hash", a.transaction>>,
            <<Request("bitcoind", "sendrawtransaction", <<>>, <<>>, a.transaction)>>)

\* variant: the fallback provider lists the outputs whenever there is one
ChainApiProvider_list_unspent_fallback_first(fallback_provider, a) ==
    IF fallback_provider THEN BitcoinCoreProvider_list_unspent(a)
    ELSE IF a.addresses = None THEN NotImplementedError
    ELSE Returns(Chain_unspents(a.addresses),
                 <<Request("chain.com", "addresses/unspents", a.addresses, <<>>, "")>>)

\* ChainApiProvider: fallback_provider says whether there is one, which
\* then is a BitcoinCoreProvider
ChainApiProvider_list_unspent(fallback_provider, a) ==
    IF a.addresses = None
    THEN IF fallback_provider THEN BitcoinCoreProvider_list_unspent(a)
                              ELSE NotImplementedError
    ELSE Returns(Chain_unspents(a.addresses),
                 <<Request("chain.com", "addresses/unspents", a.addresses, <<>>, "")>>)
ChainApiProvider_get_transaction(fallback_provider, a) ==
    Returns(<<"transaction", a.transaction>>,
            <<Request("chain.com", "transactions", <<>>, <<>>, a.transaction)>>)
ChainApiProvider_sign_transaction(fallback_provider, a) ==
    IF fallback_provider THEN BitcoinCoreProvider_sign_transaction(a)
                         ELSE NotImplementedError
ChainApiProvider_send_transaction(fallback_provider, a) ==
    IF fallback_provider THEN BitcoinCoreProvider_send_transaction(a)
                         ELSE NotImplementedError

\* the provider Configuration.create_blockchain_provider makes
Configured(blockchain_provider) ==
    IF blockchain_provider \in {"chain.com", "chain.com+bitcoind"}
    THEN [class |-> "ChainApiProvider",
          fallback_provider |-> blockchain_provider # "chain.com"]
    ELSE [class |-> "BitcoinCoreProvider", fallback_provider |-> FALSE]

create_blockchain_provider(blockchain_provider) ==
    /\ provider = NoProvider
    /\ provider' = Configured(blockchain_provider)
    /\ UNCHANGED <<requests, answer>>
    /\ UNCHANGED <<ovars, dvars, rvars>>

\* the outcome r of a call of the provider
Answer(method, a, r) ==
    /\ provider # NoProvider
    /\ Len(requests) < MaxRequests
    /\ requests' = requests \o r.requests
    /\ answer' = [method |-> method, arguments |-> a, outcome |-> r.outcome,
                  value |-> r.value, requests |-> r.requests]
    /\ UNCHANGED provider
    /\ UNCHANGED <<ovars, dvars, rvars>>

\* provider.list_unspent(addresses, min_confirmations=, max_confirmations=),
\* as _get_unspent_outputs awaits it for getbalance and listunspent
provider_list_unspent(addresses, min_confirmations, max_confirmations) ==
    LET a == Arguments(addresses, <<min_confirmations, max_confirmations>>, "")
    IN Answer("list_unspent", a,
              IF provider.class = "ChainApiProvider"
              THEN ChainApiProvider_list_unspent(provider.fallback_provider, a)
              ELSE BitcoinCoreProvider_list_unspent(a))

provider_get_transaction(transaction_hash) ==
    LET a == Arguments(<<>>, <<>>, transaction_hash)
    IN Answer("get_transaction", a,
              IF provider.class = "ChainApiProvider"
              THEN ChainApiProvider_get_transaction(provider.fallback_provider, a)
              ELSE BitcoinCoreProvider_get_transaction(a))

provider_sign_transaction(transaction) ==
    LET a == Arguments(<<>>, <<>>, transaction)
    IN Answer("sign_transaction", a,
              IF provider.class = "ChainApiProvider"
              THEN ChainApiProvider_sign_transaction(provider.fallback_provider, a)
              ELSE BitcoinCoreProvider_sign_transaction(a))

provider_send_transaction(transaction) ==
    LET a == Arguments(<<>>, <<>>, transaction)
    IN Answer("send_transaction", a,
              IF provider.class = "ChainApiProvider"
              THEN ChainApiProvider_send_transaction(provider.fallback_provider, a)
              ELSE BitcoinCoreProvider_send_transaction(a))

\* the argument values tried
BlockchainProviders == {"chain.com", "chain.com+bitcoind", "bitcoind"}
AddressLists == {None, <<"a">>, <<"a", "b">>, <<"c">>}
MinConfirmations == {0, 1}
MaxConfirmations == {5, 9999999}
TransactionsTried == {"t1", "t2"}

NextProvider ==
    \/ \E b \in BlockchainProviders : create_blockchain_provider(b)
    \/ \E l \in AddressLists, lo \in MinConfirmations, hi \in MaxConfirmations :
          provider_list_unspent(l, lo, hi)
    \/ \E t \in TransactionsTried : provider_get_transaction(t)
    \/ \E t \in TransactionsTried : provider_sign_transaction(t)
    \/ \E t \in TransactionsTried : provider_send_transaction(t)

SpecProvider == Init /\ [][NextProvider]_vars

-----------------------------------------------------------------------------
(* C23 *)

\* the confirmation counts getbalance and listunspent report: those of the
\* items list_unspent returned, one output per item
ReportedConfirmations == [i \in 1..Len(answer.value) |-> answer.value[i].confirmations]

\* C23 as stated: every output getbalance or listunspent reports has a
\* confirmation count between minconf and maxconf inclusive, whichever
\* provider is configured.
C23_ConfirmationsWithinBounds ==
    (answer.method = "list_unspent" /\ answer.outcome = "returned") =>
        \A i \in 1..Len(ReportedConfirmations) :
            /\ answer.arguments.bounds[1] <= ReportedConfirmations[i]
            /\ ReportedConfirmations[i] <= answer.arguments.bounds[2]

\* what holds: the bounds are kept when Bitcoin Core lists the outputs, as
\* the provider or as the fallback of a wallet-wide listing
C23_BoundsKeptByBitcoinCore ==
    (answer.method = "list_unspent" /\ answer.outcome = "returned"
        /\ (provider.class = "BitcoinCoreProvider" \/ answer.arguments.addresses = None)) =>
        \A i \in 1..Len(ReportedConfirmations) :
            /\ answer.arguments.bounds[1] <= ReportedConfirmations[i]
            /\ ReportedConfirmations[i] <= answer.arguments.bounds[2]

-----------------------------------------------------------------------------
(* C25 *)

\* the calls ChainApiProvider cannot serve from the chain.com API
NeedsWallet ==
    \/ answer.method \in {"sign_transaction", "send_transaction"}
    \/ answer.method = "list_unspent" /\ answer.arguments.addresses = None
\* what a BitcoinCoreProvider returns for the arguments of the last call
FallbackValue ==
    CASE answer.method = "list_unspent" ->
            BitcoinCoreProvider_list_unspent(answer.arguments).value
      [] answer.method = "sign_transaction" ->
            BitcoinCoreProvider_sign_transaction(answer.arguments).value
      [] OTHER -> BitcoinCoreProvider_send_transaction(answer.arguments).value

\* C25: ChainApiProvider hands sign_transaction, send_transaction and the
\* wallet-wide list_unspent (addresses = None) to the fallback provider
\* exactly when there is one, with the arguments it was given, and returns
\* what the fallback returned; without a fallback each of them fails with
\* NotImplementedError and makes no request.  get_transaction and
\* list_unspent for explicit addresses never use the fallback: they make one
\* request to the chain.com API.
C25_FallbackDelegation ==
    (provider.class = "ChainApiProvider" /\ answer.method # "none") =>
        IF NeedsWallet
        THEN IF provider.fallback_provider
             THEN /\ answer.outcome = "returned"
                  /\ Len(answer.requests) = 1
                  /\ answer.requests[1].to = "bitcoind"
                  /\ answer.requests[1].addresses = answer.arguments.addresses
                  /\ answer.requests[1].bounds = answer.arguments.bounds
                  /\ answer.requests[1].transaction = answer.arguments.transaction
                  /\ answer.value = FallbackValue
             ELSE /\ answer.outcome = "NotImplementedError"
                  /\ answer.requests = <<>>
        ELSE /\ answer.outcome = "returned"
             /\ Len(answer.requests) = 1
             /\ answer.requests[1].to = "chain.com"

\* with a fallback, a listing for an address went to chain.com and a
\* wallet-wide listing went to Bitcoin Core
C25_Witness ==
    /\ provider = Configured("chain.com+bitcoind")
    /\ Len(requests) = 2
    /\ requests[1].to = "chain.com" /\ requests[1].what = "addresses/unspents"
    /\ requests[2].to = "bitcoind" /\ requests[2].what = "listunspent"
    /\ answer.method = "list_unspent" /\ answer.arguments.addresses = None
    /\ Len(answer.value) = 2

-----------------------------------------------------------------------------
(* The command line (Router) and the RPC server (RpcServer) of routing.py.  *)
(* An operation is followed from the call of the Controller function to its *)
(* outcome; what it does in between is the subject of the sections above.   *)

\* the functions defined in the class Controller
ControllerFunctions ==
    {Name("__init__", "_", TRUE), Name("getbalance", "g", TRUE),
     Name("listunspent", "l", TRUE), Name("sendbitcoin", "s", TRUE),
     Name("sendasset", "s", TRUE), Name("issueasset", "i", TRUE),
     Name("distribute", "d", TRUE), Name("_calculate_distribution", "_", TRUE),
     Name("_as_p2pkh_address", "_", TRUE), Name("_as_address", "_", TRUE),
     Name("_as_int", "_", TRUE), Name("_as_decimal", "_", TRUE),
     Name("_get_fees", "_", TRUE), Name("_get_unspent_outputs", "_", TRUE),
     Name("_process_transaction", "_", TRUE), Name("_sign_transaction", "_", TRUE)}
\* what every class has without defining it, under a name without underscore
TypeAttributes == {Name("mro", "m", TRUE)}

\* getattr(self.controller, operation_name, None), self.controller being
\* the class
getattr(operation_name) ==
    IF operation_name \in ControllerFunctions THEN "function"
    ELSE IF operation_name \in TypeAttributes THEN "builtin"
    ELSE "None"

\* the subcommands Router.__init__ adds to the parser
Subcommands ==
    {"server"} \cup {function.text : function \in {f \in ControllerFunctions : f.first # "_"}}

\* the names tried as subcommand and as operation of a request
NamesTried ==
    {Name("getbalance", "g", TRUE), Name("distribute", "d", TRUE),
     Name("sendbitcoin", "s", TRUE), Name("_get_unspent_outputs", "_", TRUE),
     Name("_as_int", "_", TRUE), Name("__init__", "_", TRUE),
     Name("unknown", "u", TRUE), Name("mro", "m", TRUE),
     Name("get-balance", "g", FALSE), Name("server", "s", TRUE)}

\* re.search('^/(?P<operation>\w+)$', message.path) for the path made of
\* the segments, with a leading slash or not
Search(slash, segments) ==
    IF slash /\ Len(segments) = 1 /\ segments[1].word
    THEN Ok(segments[1])
    ELSE Fail("None", Name("", "", FALSE))

Write(text) == [status |-> 0, code |-> 0, text |-> text]
Response(status, code, text) == [status |-> status, code |-> code, text |-> text]
\* RpcServer.error
error(code, text) == Response(400, code, text)

\* what the operation can end with
Outcomes ==
    {OkResult} \cup {ErrorResult(e) : e \in {"ControllerError", "NotImplementedError",
                                             "TypeError", "ProviderError"}
                                            \cup TransactionBuilderErrors}

\* Router.parse: the subcommand is looked up and its function called with a
\* new Controller, which creates its blockchain provider
parse(name, blockchain_provider) ==
    /\ front.stage = "idle"
    /\ IF name.text \in Subcommands \ {"server"}
       THEN /\ front' = [front EXCEPT !.via = "cli", !.stage = "called",
                                      !.segments = <<name>>, !.controllers = 1,
                                      !.handler = name.text]
            /\ provider' = Configured(blockchain_provider)
       ELSE /\ front' = [front EXCEPT !.via = "cli", !.stage = "done",
                                      !.segments = <<name>>]
            /\ provider' = provider
    /\ UNCHANGED <<written, requests, answer>>
    /\ UNCHANGED <<ovars, dvars>>

\* variant: a name is refused only when the class has no such attribute
handle_request_unguarded(slash, segments, blockchain_provider) ==
    /\ front.stage = "idle"
    /\ LET url == Search(slash, segments)
           operation_name == url.val
           operation == getattr(operation_name)
           request == [front EXCEPT !.via = "rpc", !.slash = slash, !.segments = segments]
       IN IF ~url.ok
          THEN /\ written' = <<error(102, <<"The request path is invalid">>)>>
               /\ front' = [request EXCEPT !.stage = "done"]
               /\ provider' = provider
          ELSE IF operation = "None"
          THEN /\ written' = <<error(103, <<"The operation name is invalid",
                                            operation_name.text>>)>>
               /\ front' = [request EXCEPT !.stage = "done"]
               /\ provider' = provider
          ELSE IF operation = "builtin"
          THEN /\ written' = <<error(104, <<"Invalid parameters provided">>)>>
               /\ front' = [request EXCEPT !.stage = "done", !.controllers = 1,
                                          !.outcome = ErrorResult("TypeError")]
               /\ provider' = Configured(blockchain_provider)
          ELSE /\ written' = written
               /\ front' = [request EXCEPT !.stage = "called", !.controllers = 1,
                                          !.handler = operation_name.text]
               /\ provider' = Configured(blockchain_provider)
    /\ UNCHANGED <<requests, answer>>
    /\ UNCHANGED <<ovars, dvars>>

\* RpcServer.handle_request up to the call of the operation
handle_request(slash, segments, blockchain_provider) ==
    /\ front.stage = "idle"
    /\ LET url == Search(slash, segments)
           operation_name == url.val
           operation == getattr(operation_name)
           request == [front EXCEPT !.via = "rpc", !.slash = slash, !.segments = segments]
       IN IF ~url.ok
          THEN /\ written' = <<error(102, <<"The request path is invalid">>)>>
               /\ front' = [request EXCEPT !.stage = "done"]
               /\ provider' = provider
          ELSE IF operation_name.first = "_" \/ operation = "None"
          THEN /\ written' = <<error(103, <<"The operation name is invalid",
                                            operation_name.text>>)>>
               /\ front' = [request EXCEPT !.stage = "done"]
               /\ provider' = provider
          ELSE IF operation = "builtin"
          THEN /\ written' = <<error(104, <<"Invalid parameters provided">>)>>
               /\ front' = [request EXCEPT !.stage = "done", !.controllers = 1,
                                          !.outcome = ErrorResult("TypeError")]
               /\ provider' = Configured(blockchain_provider)
          ELSE /\ written' = written
               /\ front' = [request EXCEPT !.stage = "called", !.controllers = 1,
                                          !.handler = operation_name.text]
               /\ provider' = Configured(blockchain_provider)
    /\ UNCHANGED <<requests, answer>>
    /\ UNCHANGED <<ovars, dvars>>

\* what RpcServer.handle_request answers when the operation has ended
rpc_response(res) ==
    IF res.status = "ok" THEN Response(200, 0, <<"json">>)
    ELSE IF res.error = "TypeError" THEN error(104, <<"Invalid parameters provided">>)
    ELSE IF res.error = "ControllerError" THEN error(201, <<"message">>)
    ELSE IF res.error \in TransactionBuilderErrors THEN error(301, <<res.error>>)
    ELSE IF res.error = "NotImplementedError" THEN error(202, <<"message">>)
    ELSE Response(500, 0, <<"Internal server error">>)

\* variant: the result is written before the operation is known to have
\* succeeded
operation_ends_written_first(res) ==
    /\ front.stage = "called"
    /\ IF front.via = "rpc"
       THEN /\ written' = Append(written, rpc_response(res))
            /\ front' = [front EXCEPT !.stage = "done", !.outcome = res]
       ELSE /\ written' = <<Write(<<"json">>)>>
                            \o (IF res.status = "ok" \/ execute_operation(res) = <<>>
                                THEN <<>> ELSE <<Write(execute_operation(res))>>)
            /\ front' = [front EXCEPT !.stage = "done", !.outcome = res,
                                      !.raised = IF execute_operation(res) = <<>>
                                                 THEN res.error ELSE ""]
    /\ UNCHANGED pvars
    /\ UNCHANGED <<ovars, dvars>>

\* the operation ends with res: the RPC server answers; the command line
\* writes the result or the error, or lets the exception through
operation_ends(res) ==
    /\ front.stage = "called"
    /\ IF front.via = "rpc"
       THEN /\ written' = Append(written, rpc_response(res))
            /\ front' = [front EXCEPT !.stage = "done", !.outcome = res]
       ELSE /\ written' = IF execute_operation(res) = <<>> THEN written
                          ELSE Append(written, Write(execute_operation(res)))
            /\ front' = [front EXCEPT !.stage = "done", !.outcome = res,
                                      !.raised = IF execute_operation(res) = <<>>
                                                 THEN res.error ELSE ""]
    /\ UNCHANGED pvars
    /\ UNCHANGED <<ovars, dvars>>

\* the next command or request is served by a new process or handler
next_invocation ==
    /\ front.stage = "done"
    /\ front' = NoInvocation
    /\ written' = <<>>
    /\ provider' = NoProvider
    /\ UNCHANGED <<requests, answer>>
    /\ UNCHANGED <<ovars, dvars>>

\* the paths requested: /name, /, /name/name and name without slash
PathsTried ==
    {<<n>> : n \in NamesTried} \cup {<<>>, <<Name("a", "a", TRUE), Name("b", "b", TRUE)>>}

NextRouter ==
    \/ \E n \in NamesTried, b \in BlockchainProviders : parse(n, b)
    \/ \E slash \in BOOLEAN, p \in PathsTried, b \in BlockchainProviders :
          handle_request(slash, p, b)
    \/ \E res \in Outcomes : operation_ends(res)
    \/ next_invocation

SpecRouter == Init /\ [][NextRouter]_vars

-----------------------------------------------------------------------------
(* C24 *)

\* a subcommand of the command line has run an operation to its end
Invoked == front.via = "cli" /\ front.stage = "done" /\ front.handler # "none"
\* the error classes _execute_operation writes to the output
WrittenErrors == {"ControllerError", "NotImplementedError"} \cup TransactionBuilderErrors

\* C24 as stated: every invocation of an operation from the command line
\* writes exactly one thing to the output, the result or one error line.
C24_ExactlyOneWrite == Invoked => Len(written) = 1

\* C24: an invocation of an operation from the command line writes exactly
\* one thing when the operation succeeds, namely the JSON result, and when
\* it raises ControllerError ("Error: " and the message),
\* TransactionBuilderError ("Error: " and the name of the error class) or
\* NotImplementedError ("Error: " and the message); a result and an error
\* are never both written and none of these errors is dropped.  Any other
\* exception is not caught: nothing is written to the output and the
\* exception leaves the command.
C24_OneWritePerOutcome ==
    /\ front.via = "cli" => Len(written) <= 1
    /\ Invoked =>
          /\ front.outcome = OkResult => written = <<Write(<<"json">>)>>
          /\ front.outcome.error \in {"ControllerError", "NotImplementedError"} =>
                written = <<Write(<<"Error: ", "message">>)>>
          /\ front.outcome.error \in TransactionBuilderErrors =>
                written = <<Write(<<"Error: ", front.outcome.error>>)>>
          /\ (front.outcome.status = "error" /\ front.outcome.error \notin WrittenErrors) =>
                /\ written = <<>>
                /\ front.raised = front.outcome.error
          /\ front.outcome.error \in WrittenErrors => front.raised = ""

\* distribute from the command line ends with an error of the builder
C24_Witness ==
    /\ Invoked
    /\ front.handler = "distribute"
    /\ front.outcome = ErrorResult("DustOutputError")
    /\ Len(written) = 1

-----------------------------------------------------------------------------
(* C30 *)

\* the request was refused before any operation was looked at or called
Refused(code) ==
    /\ front.stage = "done"
    /\ written = <<error(code, written[1].text)>>
    /\ front.controllers = 0
    /\ front.handler = "none"
    /\ provider = NoProvider
    /\ requests = <<>> /\ calls = <<>> /\ db = EmptyDatabase

\* C30: through the RPC server no attribute of the Controller whose name
\* starts with an underscore is invoked.  A path that is not /<word> is
\* answered with error 102, a name that starts with an underscore or that
\* the Controller does not have with error 103, both with HTTP status 400;
\* in these cases no Controller is instantiated, no provider is created or
\* called, the cache is not touched and no code of an operation runs.  The
\* command line has no subcommand whose name starts with an underscore, and
\* runs nothing for such a name.
C30_PrivateNotRoutable ==
    /\ front.handler # "none" =>
          \E f \in ControllerFunctions : f.text = front.handler /\ f.first # "_"
    /\ (front.via = "rpc" /\ ~Search(front.slash, front.segments).ok) => Refused(102)
    /\ (front.via = "rpc" /\ Search(front.slash, front.segments).ok
           /\ (front.segments[1].first = "_" \/ getattr(front.segments[1]) = "None")) =>
          Refused(103)
    /\ \A f \in ControllerFunctions : f.first = "_" => f.text \notin Subcommands
    /\ (front.via = "cli" /\ front.segments[1].first = "_") =>
          /\ front.stage = "done"
          /\ written = <<>>
          /\ front.controllers = 0 /\ front.handler = "none"
          /\ provider = NoProvider

\* a request for /_get_unspent_outputs has been answered
C30_Witness ==
    /\ front.via = "rpc" /\ front.slash
    /\ front.segments = <<Name("_get_unspent_outputs", "_", TRUE)>>
    /\ front.stage = "done"
    /\ written = <<error(103, <<"The operation name is invalid", "_get_unspent_outputs">>)>>

====
